---- MODULE Spec2Model ----
(***************************************************************************)
(* State-machine model of the construct library's orchestration core:      *)
(*   - the functional-stack registry   (src/constructs/FunctionalStack.js) *)
(*   - the event bus                   (src/bus.js)                        *)
(*   - the site constructs and their deferred build tasks                  *)
(*     (src/constructs/SsrSite.js, StaticSite in src/unnamed/part_000)     *)
(* Each subsystem has its own specification (SpecRegistry, SpecBus,        *)
(* SpecSite, ...); the variables of the other subsystems stay unchanged.   *)
(* Functions without state of their own (error messages, part discovery,  *)
(* identifiers, permission resolution) are operators; a specification     *)
(* that calls one records the call in `call` and its outcome in `ret`.     *)
(* regLast, busLast and siteLast are history variables: they describe the  *)
(* operation whose execution led to the current state (op = "none" when    *)
(* that step was not a call of interest).                                  *)
(***************************************************************************)
EXTENDS Integers, Sequences, FiniteSets, TLC

VARIABLES
    \* ---- functional-stack registry (FunctionalStack.js) ----
    currentApp,     \* module-level `currentApp`   ("none" = undefined)
    currentStack,   \* module-level `currentStack` ("none" = undefined)
    exportsCache,   \* Map app -> Map fn -> output
    stackCache,     \* Map app -> Map fn -> stack handle
    stacks,         \* stack handles created so far (children of the apps)
    deps,           \* log of addDependency calls: <<from handle, to handle>>
    running,        \* the stack() call whose body executes right now (<= 1)
    pending,        \* stack() calls whose async body is suspended at an await
    ncalls,         \* number of stack() calls issued so far
    invoked,        \* history: <<app, fn>> pairs stack() was invoked with
    regLast,        \* history: the registry operation that led to this state
    \* ---- event bus (bus.js) ----
    sourceID,       \* fixed when the bus is created
    subscriptions,  \* type -> ordered list of subscription objects
    handles,        \* every subscription object subscribe() ever returned
    pub,            \* the publish() in progress (<= 1): set of records
    delivered,      \* callbacks invoked so far by the publish in progress
    busLast,        \* history: the bus operation that led to this state
    \* ---- sites and deferred tasks ----
    mode,           \* app.mode
    sites,          \* sequence of constructed site records
    tasks,          \* the deferred task queue
    drain,          \* state of drain(): "idle", "running", "done", "failed"
    cur,            \* the task in progress: set of records (<= 1)
    taskLog,        \* history: start / end / fail events of the drain
    queued,         \* history: the queue as it was when drain() was invoked
    drainError,     \* the error drain() failed with
    siteLast,       \* history: the constructor call that led to this state
    \* ---- functions without state of their own ----
    call,           \* the function call evaluated last, with its arguments
    ret             \* what that call returned or threw

registryVars == <<currentApp, currentStack, exportsCache, stackCache, stacks, deps,
                  running, pending, ncalls, invoked, regLast>>
busVars == <<sourceID, subscriptions, handles, pub, delivered, busLast>>
siteVars == <<mode, sites, tasks, drain, cur, taskLog, queued, drainError, siteLast>>
fnVars == <<call, ret>>
vars == <<registryVars, busVars, siteVars, fnVars>>

-----------------------------------------------------------------------------
(* Generic helpers for JS Map objects, modelled as functions with a finite  *)
(* domain.                                                                  *)

EmptyMap == [x \in {} |-> 0]
MapHas(m, k) == k \in DOMAIN m
MapSet(m, k, v) == [x \in (DOMAIN m) \cup {k} |-> IF x = k THEN v ELSE m[x]]

NoOp == [op |-> "none"]

\* no function has been called yet
FnInit == call = NoOp /\ ret = NoOp

-----------------------------------------------------------------------------
(* Bounds of the registry model.                                            *)

MaxCalls == 3
MaxDeps == 1

Apps == {"A", "B"}
Fns == {"f", "g"}
\* what a definition function can return or resolve to
Falsy == {"undefined"}
TruthyPrimitives == {"str"}
Objects == {"obj1", "obj2"}
Values == Falsy \cup TruthyPrimitives \cup Objects

NoHandle == [n |-> 0, app |-> "none", fn |-> "none"]

\* getExports(app) / getStacks(app), lines 32-41: the per-app map, created
\* empty on first access (an app without a map and an app with an empty map
\* are the same to every caller, so every app has its map from the start)
getExports(app) == exportsCache[app]
getStacks(app) == stackCache[app]

RegistryInit ==
    /\ currentApp = "none"
    /\ currentStack = "none"
    /\ exportsCache = [a \in Apps |-> EmptyMap]
    /\ stackCache = [a \in Apps |-> EmptyMap]
    /\ stacks = {}
    /\ deps = <<>>
    /\ running = {}
    /\ pending = {}
    /\ ncalls = 0
    /\ invoked = {}
    /\ regLast = NoOp

-----------------------------------------------------------------------------
(* stack(app, fn, props), FunctionalStack.js lines 2-27.                    *)
(* A call is issued by the driver while no body executes (JS is single      *)
(* threaded); the body then runs as the `running` call, may suspend at an   *)
(* await (pending) and be resumed later.                                    *)

\* const exists = getExports(app).has(fn)
Exists(app, fn) == MapHas(getExports(app), fn)

\* new EmptyStack(app, id, props) creates a new stack handle, the n-th one.
\* The construct tree (outside this repository's sources) refuses a second
\* child of an app with the same id; the caller is taken to give every stack
\* of an app an id of its own (props.id, or fn.name by default), so the
\* constructor succeeds.
NewHandle(app, fn) == [n |-> ncalls + 1, app |-> app, fn |-> fn]

StackCall(app, fn) ==
    /\ running = {}
    /\ ncalls < MaxCalls
    /\ ncalls' = ncalls + 1
    /\ currentApp' = app
    /\ currentStack' = fn
    /\ invoked' = invoked \cup {<<app, fn>>}
    /\ LET h == NewHandle(app, fn)
           base == [op |-> "stack", app |-> app, fn |-> fn,
                    already |-> <<app, fn>> \in invoked,
                    unresolved |-> \E c \in pending : c.app = app /\ c.fn = fn,
                    result |-> "none", created |-> FALSE]
       IN  IF Exists(app, fn)
           THEN \* throw new Error("StackDuplicates: ...")
                /\ regLast' = [base EXCEPT !.result = "StackDuplicates"]
                /\ UNCHANGED <<stackCache, stacks, running>>
           ELSE \* getStacks(app).set(fn, stack); the body starts
                /\ stacks' = stacks \cup {h}
                /\ stackCache' = [stackCache EXCEPT ![app] = MapSet(getStacks(app), fn, h)]
                /\ running' = {[n |-> ncalls + 1, app |-> app, fn |-> fn, h |-> h,
                                async |-> FALSE]}
                /\ regLast' = [base EXCEPT !.result = "started", !.created = TRUE]
    /\ UNCHANGED <<exportsCache, deps, pending>>

\* use(stack), lines 42-49: what a call returns in the current state
UseOutcome(target) ==
    IF currentApp = "none"
    THEN [result |-> "NoApp", value |-> "none"]
    ELSE LET exports == getExports(currentApp)
         IN  IF ~MapHas(exports, target)
             THEN [result |-> "StackWrongOrder", value |-> "none"]
             ELSE [result |-> "ok", value |-> exports[target]]

\* getStack(stack), lines 55-62
GetStackOutcome(target) ==
    IF currentApp = "none"
    THEN [result |-> "NoApp", handle |-> NoHandle]
    ELSE LET stks == getStacks(currentApp)
         IN  IF ~MapHas(stks, target)
             THEN [result |-> "StackWrongOrder", handle |-> NoHandle]
             ELSE [result |-> "ok", handle |-> stks[target]]

\* the executing body calls use(target)
BodyUse(target) ==
    /\ \E c \in running :
         regLast' = [op |-> "use", callerApp |-> c.app, callerFn |-> c.fn,
                     target |-> target, app |-> currentApp,
                     result |-> UseOutcome(target).result,
                     value |-> UseOutcome(target).value]
    /\ UNCHANGED <<currentApp, currentStack, exportsCache, stackCache, stacks, deps,
                   running, pending, ncalls, invoked>>

\* the executing body calls dependsOn(target), lines 50-54
\* (variant: the dependency starts at the stack whose body runs)
BodyDependsOnFromCaller(target) ==
    /\ Len(deps) < MaxDeps
    /\ \E c \in running :
         LET current == [result |-> "ok", handle |-> c.h]
             tgt == GetStackOutcome(target)
             ok == current.result = "ok" /\ tgt.result = "ok"
             added == IF ok THEN << <<current.handle, tgt.handle>> >> ELSE <<>>
         IN  /\ deps' = deps \o added
             /\ regLast' = [op |-> "dependsOn", callerApp |-> c.app, caller |-> c.h,
                            target |-> target, app |-> currentApp,
                            result |-> IF current.result # "ok" THEN current.result
                                       ELSE tgt.result,
                            before |-> deps]
    /\ UNCHANGED <<currentApp, currentStack, exportsCache, stackCache, stacks,
                   running, pending, ncalls, invoked>>

BodyDependsOn(target) ==
    /\ Len(deps) < MaxDeps
    /\ \E c \in running :
         LET current == GetStackOutcome(currentStack)
             tgt == GetStackOutcome(target)
             ok == current.result = "ok" /\ tgt.result = "ok"
             added == IF ok THEN << <<current.handle, tgt.handle>> >> ELSE <<>>
         IN  /\ deps' = deps \o added
             /\ regLast' = [op |-> "dependsOn", callerApp |-> c.app, caller |-> c.h,
                            target |-> target, app |-> currentApp,
                            result |-> IF current.result # "ok" THEN current.result
                                       ELSE tgt.result,
                            before |-> deps]
    /\ UNCHANGED <<currentApp, currentStack, exportsCache, stackCache, stacks,
                   running, pending, ncalls, invoked>>

\* getExports(app).set(fn, data)
StoreExport(app, fn, v) ==
    [exportsCache EXCEPT ![app] = MapSet(getExports(app), fn, v)]

\* lines 20-26, synchronous body: const returns = fn.bind(stack)(ctx) with a
\* value that is not a thenable.  `"then" in returns` is evaluated for every
\* truthy value and throws a TypeError for a primitive.
BodyReturn(v) ==
    /\ \E c \in running :
         /\ ~c.async
         /\ IF v \in TruthyPrimitives
            THEN /\ regLast' = [op |-> "return", app |-> c.app, fn |-> c.fn,
                                value |-> v, async |-> FALSE, result |-> "TypeError"]
                 /\ UNCHANGED exportsCache
            ELSE /\ exportsCache' = StoreExport(c.app, c.fn, v)
                 /\ regLast' = [op |-> "return", app |-> c.app, fn |-> c.fn,
                                value |-> v, async |-> FALSE, result |-> "ok"]
    /\ running' = {}
    /\ UNCHANGED <<currentApp, currentStack, stackCache, stacks, deps, pending,
                   ncalls, invoked>>

\* the executing body throws (for instance a failed use() it does not catch):
\* stack() throws, or the promise it returned rejects; no output is stored
BodyThrow ==
    /\ \E c \in running :
         regLast' = [op |-> "throw", app |-> c.app, fn |-> c.fn, async |-> c.async]
    /\ running' = {}
    /\ UNCHANGED <<currentApp, currentStack, exportsCache, stackCache, stacks, deps,
                   pending, ncalls, invoked>>

\* the executing body reaches an await: an async body's first suspension makes
\* fn return a promise, and stack() returns returns.then(...)
BodyAwait ==
    /\ \E c \in running : pending' = pending \cup {[c EXCEPT !.async = TRUE]}
    /\ running' = {}
    /\ regLast' = NoOp
    /\ UNCHANGED <<currentApp, currentStack, exportsCache, stackCache, stacks, deps,
                   ncalls, invoked>>

\* a suspended body is resumed by the event loop
BodyResume(c) ==
    /\ running = {}
    /\ c \in pending
    /\ running' = {c}
    /\ pending' = pending \ {c}
    /\ regLast' = NoOp
    /\ UNCHANGED <<currentApp, currentStack, exportsCache, stackCache, stacks, deps,
                   ncalls, invoked>>

\* lines 22-24: the awaitable resolves to data and the then-callback stores it
BodyResolve(v) ==
    /\ \E c \in running :
         /\ c.async
         /\ exportsCache' = StoreExport(c.app, c.fn, v)
         /\ regLast' = [op |-> "return", app |-> c.app, fn |-> c.fn, value |-> v,
                        async |-> TRUE, result |-> "ok"]
    /\ running' = {}
    /\ UNCHANGED <<currentApp, currentStack, stackCache, stacks, deps, pending,
                   ncalls, invoked>>


-----------------------------------------------------------------------------
(* The event bus, bus.js.                                                   *)

MaxSubs == 3

Types == {"build.start", "stacks.metadata"}
Callbacks == {"cb1", "cb2"}
Properties == {"p1", "p2"}
\* crypto.randomBytes(16).toString("hex"): some value, drawn once
SourceIDs == {"id1", "id2"}

\* an object of the right shape that subscribe() never returned
ForeignHandles == {[id |-> 0, type |-> t, cb |-> cb] : t \in Types, cb \in Callbacks}

BusInit ==
    /\ sourceID \in SourceIDs
    /\ subscriptions = [t \in Types |-> <<>>]
    /\ handles = {}
    /\ pub = {}
    /\ delivered = <<>>
    /\ busLast = NoOp

\* subscribers(type), lines 7-14: the list of a type, created empty on first
\* access (a type without a list and a type with an empty list are the same
\* to every caller, so the list is kept for every type from the start)
subscribers(type) == subscriptions[type]

\* Array.prototype.indexOf: 0-based index of the first element identical to
\* x, or -1
IndexOf(arr, x) ==
    IF \E i \in 1..Len(arr) : arr[i] = x
    THEN (CHOOSE i \in 1..Len(arr) : arr[i] = x /\ \A j \in 1..(i - 1) : arr[j] # x) - 1
    ELSE -1

\* Array.prototype.splice(start, 1): a negative start counts from the end
Splice1(arr, start) ==
    LET len == Len(arr)
        from == IF start < 0 THEN (IF len + start < 0 THEN 0 ELSE len + start)
                ELSE (IF start > len THEN len ELSE start)
    IN  [i \in 1..(IF from < len THEN len - 1 ELSE len) |->
            IF i <= from THEN arr[i] ELSE arr[i + 1]]

\* a callback of the publish in progress is executing (publish is synchronous:
\* between two deliveries only the callback just invoked can run)
InCallback == \E p \in pub : p.idx > 0

\* subscribe(type, cb), lines 37-44
Subscribe(type, cb) ==
    /\ pub = {} \/ InCallback
    /\ Cardinality(handles) < MaxSubs
    /\ LET sub == [id |-> Cardinality(handles) + 1, type |-> type, cb |-> cb]
       IN  /\ subscriptions' = [subscriptions EXCEPT ![type] = Append(subscribers(type), sub)]
           /\ handles' = handles \cup {sub}
           /\ busLast' = [op |-> "subscribe", h |-> sub, before |-> subscriptions]
    /\ UNCHANGED <<sourceID, pub, delivered>>

\* (variant: the `index < 0` early return is missing)
UnsubscribedNoGuard(sub) ==
    Splice1(subscribers(sub.type), IndexOf(subscribers(sub.type), sub))

\* the list of sub.type after unsubscribe(sub), lines 31-35
Unsubscribed(sub) ==
    LET arr == subscribers(sub.type)
        index == IndexOf(arr, sub)
    IN  IF index < 0 THEN arr ELSE Splice1(arr, index)

\* unsubscribe(sub), lines 30-36
Unsubscribe(sub) ==
    /\ pub = {} \/ InCallback
    /\ subscriptions' = [subscriptions EXCEPT ![sub.type] = Unsubscribed(sub)]
    /\ busLast' = [op |-> "unsubscribe", h |-> sub, before |-> subscriptions]
    /\ UNCHANGED <<sourceID, handles, pub, delivered>>

\* publish(type, properties), lines 18-29: the payload is built and the
\* iteration over the live list of the type starts
PublishBegin(type, properties) ==
    /\ pub = {}
    /\ pub' = {[type |-> type, properties |-> properties, idx |-> 0,
                atStart |-> subscribers(type)]}
    /\ delivered' = <<>>
    /\ busLast' = NoOp
    /\ UNCHANGED <<sourceID, subscriptions, handles>>

\* one iteration of `for (const sub of subscribers(type)) sub.cb(payload)`
Deliver ==
    /\ \E p \in pub :
         /\ p.idx < Len(subscribers(p.type))
         /\ delivered' = Append(delivered,
                [sub |-> subscribers(p.type)[p.idx + 1],
                 payload |-> [type |-> p.type, properties |-> p.properties,
                              sourceID |-> sourceID]])
         /\ pub' = {[p EXCEPT !.idx = p.idx + 1]}
    /\ busLast' = NoOp
    /\ UNCHANGED <<sourceID, subscriptions, handles>>

\* the iterator is exhausted and publish returns
PublishEnd ==
    /\ \E p \in pub :
         /\ p.idx >= Len(subscribers(p.type))
         /\ busLast' = [op |-> "publish", type |-> p.type, properties |-> p.properties,
                        atStart |-> p.atStart, delivered |-> delivered]
    /\ pub' = {}
    /\ delivered' = <<>>
    /\ UNCHANGED <<sourceID, subscriptions, handles>>


-----------------------------------------------------------------------------
(* Site constructs (SsrSite.js, StaticSite in part_000) and the deferred    *)
(* task queue they register their build pipeline on.                        *)

MaxSites == 2
MaxQueue == 3
MaxParts == 1

Modes == {"dev", "deploy"}
Kinds == {"SsrSite", "StaticSite"}
\* props.dev?.deploy
DevDeploys == {"unset", "false", "true"}
\* props.dev?.url
DevUrls == {"undefined", "http://localhost:3000"}
\* props.timeout in seconds
Timeouts == {10, 31, 181}

EdgeTimeoutLimit == 30
RegionalTimeoutLimit == 180

\* (variant: the S3 deployment is created before the archive is packaged)
SsrStagesDeployFirst == <<"build", "validateOutput", "serverBuild", "warmer", "deploy",
                          "package", "behaviors", "invalidate">>

\* the body of the deferred task an SsrSite adds, SsrSite.js lines 105-129
SsrStages == <<"build", "validateOutput", "serverBuild", "warmer", "package",
               "deploy", "behaviors", "invalidate">>
\* the body of the deferred task a StaticSite adds, part_000 lines 66-77:
\* buildApp checks the path and runs the build command, createS3Assets
\* checks the build output before it runs the archiver
StaticStages == <<"validatePath", "build", "validateOutput", "package", "filenames",
                  "deploy", "invalidate">>
\* the task createFunctionForDev adds, SsrSite.js lines 467-469
DevStages == <<"serverBuild">>

\* stages that can throw: a missing path, an external command exiting
\* non-zero, missing output; creating a resource object or an invalidation
\* does not fail
FallibleStages == {"build", "validateOutput", "serverBuild", "warmer", "package",
                   "validatePath", "filenames"}

NoError == [task |-> 0, stage |-> "none"]

SiteInit ==
    /\ mode \in Modes
    /\ sites = <<>>
    /\ tasks = <<>>
    /\ drain = "idle"
    /\ cur = {}
    /\ taskLog = <<>>
    /\ queued = <<>>
    /\ drainError = NoError
    /\ siteLast = NoOp

\* (variant: only an explicit dev.deploy = false makes a placeholder)
DoNotDeployExplicitFalse(isActive, devDeploy) ==
    ~isActive \/ (mode = "dev" /\ devDeploy = "false")

\* (variant: the stack's isActive flag is ignored)
DoNotDeployIgnoreActive(isActive, devDeploy) ==
    mode = "dev" /\ devDeploy # "true"

\* this.doNotDeploy = !stack.isActive || (app.mode === "dev" && !this.props.dev?.deploy)
\* SsrSite.js lines 76-77, part_000 lines 55-56
DoNotDeploy(isActive, devDeploy) ==
    ~isActive \/ (mode = "dev" /\ devDeploy # "true")

\* (variant: a timeout equal to the ceiling is refused as well)
TimeoutTooLongInclusive(edge, timeout) ==
    timeout >= (IF edge THEN EdgeTimeoutLimit ELSE RegionalTimeoutLimit)

\* validateTimeout, SsrSite.js lines 794-805
TimeoutTooLong(edge, timeout) ==
    timeout > (IF edge THEN EdgeTimeoutLimit ELSE RegionalTimeoutLimit)

\* what the constructor throws, if anything: SsrSite validates the path and
\* the timeout before it looks at doNotDeploy (lines 79-80); StaticSite
\* validates nothing in its constructor
ConstructorError(kind, pathExists, edge, timeout) ==
    IF kind = "SsrSite" /\ ~pathExists THEN "NoSiteFound"
    ELSE IF kind = "SsrSite" /\ TimeoutTooLong(edge, timeout) THEN "TimeoutTooLong"
    ELSE "none"

\* the construct once its constructor has returned
NewSiteRecord(kind, isActive, devDeploy, devUrl, warmOnEdge) ==
    LET dnd == DoNotDeploy(isActive, devDeploy)
    IN  [kind |-> kind, devDeploy |-> devDeploy, devUrl |-> devUrl,
         \* props.warm && props.edge, tested by createWarmer
         warmOnEdge |-> warmOnEdge, doNotDeploy |-> dnd,
         \* createS3Bucket / createCloudFrontDistribution...: skipped by the
         \* early return of a doNotDeploy site
         bucket |-> ~dnd, distribution |-> ~dnd,
         \* the dev server function of a doNotDeploy SsrSite
         devFunction |-> (dnd /\ kind = "SsrSite"),
         builds |-> 0, assets |-> 0, packaged |-> FALSE, s3deploy |-> FALSE,
         behaviors |-> FALSE, invalidated |-> FALSE, done |-> <<>>]

\* the deferred tasks the constructor adds with useDeferredTasks().add
NewSiteTasks(kind, dnd, idx) ==
    IF ~dnd THEN << [site |-> idx,
                     stages |-> IF kind = "SsrSite" THEN SsrStages ELSE StaticStages] >>
    ELSE IF kind = "SsrSite" THEN << [site |-> idx, stages |-> DevStages] >>
    ELSE <<>>

\* useDeferredTasks().add(task): appends to the ordered list of the build
QueueAdd(q, ts) == q \o ts

\* new SsrSite(scope, id, props) / new StaticSite(scope, id, props)
NewSite(kind, isActive, devDeploy, devUrl, pathExists, edge, timeout, warm) ==
    /\ drain = "idle"
    /\ LET err == ConstructorError(kind, pathExists, edge, timeout)
           site == NewSiteRecord(kind, isActive, devDeploy, devUrl, warm /\ edge)
       IN  /\ siteLast' = [op |-> "new", kind |-> kind, isActive |-> isActive,
                            devDeploy |-> devDeploy, pathExists |-> pathExists,
                            edge |-> edge, timeout |-> timeout, warm |-> warm,
                            error |-> err]
           /\ IF err # "none"
              THEN UNCHANGED <<sites, tasks>>
              ELSE /\ sites' = Append(sites, site)
                   /\ tasks' = QueueAdd(tasks, NewSiteTasks(kind, site.doNotDeploy,
                                                            Len(sites) + 1))
    /\ UNCHANGED <<mode, drain, cur, taskLog, queued, drainError>>

\* get url(), SsrSite.js lines 137-141, part_000 lines 82-86
Url(site) == IF site.doNotDeploy THEN site.devUrl ELSE "distribution.url"

\* props.customDomain: unset, a domain name, or an object with a domainName
CustomDomains == {"undefined", "example.com", "www.example.com"}

\* get customDomainUrl(): part_000 lines 90-104; SsrSite.js lines 146-150
\* hands over the value of its distribution
CustomDomainUrl(site, customDomain) ==
    IF site.doNotDeploy \/ customDomain = "undefined" THEN "undefined"
    ELSE "https://" \o customDomain

\* (variant: a || b always taking b)
OrElseSecond(a, b) == b

\* a || b for two URLs
OrElse(a, b) == IF a = "undefined" THEN b ELSE a

\* getFunctionBinding(), SsrSite.js lines 206-231, part_000 lines 128-153;
\* the permissions are left out
getFunctionBinding(site, customDomain) ==
    [clientPackage |-> "site",
     variables |->
        [url |-> IF site.doNotDeploy
                 THEN [type |-> "plain",
                       \* this.props.dev?.url ?? "localhost"
                       value |-> IF site.devUrl = "undefined" THEN "localhost"
                                 ELSE site.devUrl]
                 ELSE [type |-> "site_url",
                       value |-> OrElse(CustomDomainUrl(site, customDomain), Url(site))]]]

\* the url variable of the binding of a site declared without customDomain
BindingUrl(site) == getFunctionBinding(site, "undefined").variables.url

-----------------------------------------------------------------------------
(* The stages of a deferred build task, executed one at a time.             *)

\* a stage runs to its end: hasCmd says whether props.buildCommand is set
\* (StaticSite runs a build command only then, part_000 line 189; SsrSite
\* falls back to "npm run build", SsrSite.js line 259); parts is the number
\* of partN.zip files the archiver wrote
StageDone(site, stage, hasCmd, parts) ==
    LET s == [site EXCEPT !.done = Append(site.done, stage)]
    IN  IF stage = "build"
        THEN [s EXCEPT !.builds = IF site.kind = "SsrSite" \/ hasCmd
                                  THEN site.builds + 1 ELSE site.builds]
        ELSE IF stage = "package"
        THEN [s EXCEPT !.assets = parts, !.packaged = TRUE]
        ELSE IF stage = "deploy" THEN [s EXCEPT !.s3deploy = TRUE]
        ELSE IF stage = "behaviors" THEN [s EXCEPT !.behaviors = TRUE]
        ELSE IF stage = "invalidate" THEN [s EXCEPT !.invalidated = TRUE]
        ELSE s

\* a stage throws: the build command was invoked before it exited non-zero;
\* the other failures leave no resource behind
StageFailed(site, stage) ==
    IF stage = "build" THEN [site EXCEPT !.builds = site.builds + 1] ELSE site

\* whether the stage can throw for this site: createWarmer throws only when
\* props.warm is set on an edge site, SsrSite.js lines 491-497
CanFail(site, stage, hasCmd) ==
    /\ stage \in FallibleStages
    /\ (site.kind = "StaticSite" /\ stage = "build") => hasCmd
    /\ stage = "warmer" => site.warmOnEdge

-----------------------------------------------------------------------------
(* drain() of the deferred task queue.                                      *)

Event(ev, k, stage) == [ev |-> ev, task |-> k, stage |-> stage]
Started == Len(SelectSeq(taskLog, LAMBDA e : e.ev = "start"))

\* drain() is invoked, once, after the declarations
DrainStart ==
    /\ drain = "idle"
    /\ drain' = "running"
    /\ queued' = tasks
    /\ UNCHANGED <<mode, sites, tasks, cur, taskLog, drainError>>
    /\ siteLast' = NoOp

\* (variant: all tasks are started at once, as with Promise.all)
NextTaskReadyConcurrent == Started < Len(tasks)

\* the loop of drain() goes on to the next task once the previous one has
\* completed
NextTaskReady == cur = {} /\ Started < Len(tasks)

TaskStart ==
    /\ drain = "running"
    /\ NextTaskReady
    /\ cur' = cur \cup {[task |-> Started + 1, stage |-> 1]}
    /\ taskLog' = Append(taskLog, Event("start", Started + 1, "none"))
    /\ UNCHANGED <<mode, sites, tasks, drain, queued, drainError>>
    /\ siteLast' = NoOp

\* the task in progress executes its next stage
TaskStep(hasCmd, parts) ==
    /\ drain = "running"
    /\ \E c \in cur :
         LET t == tasks[c.task]
         IN  /\ c.stage <= Len(t.stages)
             /\ sites' = [sites EXCEPT ![t.site] =
                             StageDone(sites[t.site], t.stages[c.stage], hasCmd, parts)]
             /\ cur' = (cur \ {c}) \cup {[c EXCEPT !.stage = c.stage + 1]}
    /\ UNCHANGED <<mode, tasks, drain, taskLog, queued, drainError>>
    /\ siteLast' = NoOp

\* the task in progress has executed its last stage
TaskEnd ==
    /\ drain = "running"
    /\ \E c \in cur :
         /\ c.stage > Len(tasks[c.task].stages)
         /\ cur' = cur \ {c}
         /\ taskLog' = Append(taskLog, Event("end", c.task, "none"))
    /\ UNCHANGED <<mode, sites, tasks, drain, queued, drainError>>
    /\ siteLast' = NoOp

\* (variant: a failed task is logged and the drain goes on)
DrainIsolate(c, stage) ==
    /\ drain' = drain
    /\ drainError' = drainError
    /\ cur' = cur \ {c}
    /\ taskLog' = Append(taskLog, Event("fail", c.task, stage))

\* the error of a task is not caught: drain() fails with it and the
\* remaining tasks are not run
DrainAbort(c, stage) ==
    /\ drain' = "failed"
    /\ drainError' = [task |-> c.task, stage |-> stage]
    /\ cur' = cur \ {c}
    /\ taskLog' = Append(taskLog, Event("fail", c.task, stage))

\* the stage the task in progress is at throws
TaskFail(hasCmd) ==
    /\ drain = "running"
    /\ \E c \in cur :
         LET t == tasks[c.task]
         IN  /\ c.stage <= Len(t.stages)
             /\ CanFail(sites[t.site], t.stages[c.stage], hasCmd)
             /\ sites' = [sites EXCEPT ![t.site] =
                             StageFailed(sites[t.site], t.stages[c.stage])]
             /\ DrainAbort(c, t.stages[c.stage])
    /\ UNCHANGED <<mode, tasks, queued>>
    /\ siteLast' = NoOp

\* every task has completed: drain() returns and the queue is empty
DrainEnd ==
    /\ drain = "running"
    /\ cur = {}
    /\ Started = Len(tasks)
    /\ drain' = "done"
    /\ tasks' = <<>>
    /\ UNCHANGED <<mode, sites, cur, taskLog, queued, drainError>>
    /\ siteLast' = NoOp


-----------------------------------------------------------------------------
(* Specifications: one per subsystem.                                       *)

\* what a step of one subsystem leaves alone
RegistryFrame == UNCHANGED <<busVars, siteVars, fnVars>>
BusFrame == UNCHANGED <<registryVars, siteVars, fnVars>>
SiteFrame == UNCHANGED <<registryVars, busVars, fnVars>>
FnFrame == UNCHANGED <<registryVars, busVars, siteVars>>

InitRegistry ==
    RegistryInit /\ BusInit /\ sourceID = "id1" /\ SiteInit /\ mode = "deploy" /\ FnInit
NextRegistry ==
    \/ \E app \in Apps, fn \in Fns : StackCall(app, fn) /\ RegistryFrame
    \/ BodyAwait /\ RegistryFrame
    \/ \E target \in Fns : BodyUse(target) /\ RegistryFrame
    \/ \E target \in Fns : BodyDependsOn(target) /\ RegistryFrame
    \/ \E v \in Values : BodyReturn(v) /\ RegistryFrame
    \/ BodyThrow /\ RegistryFrame
    \/ \E c \in pending : BodyResume(c) /\ RegistryFrame
    \/ \E v \in Values : BodyResolve(v) /\ RegistryFrame
SpecRegistry == InitRegistry /\ [][NextRegistry]_vars

InitBus == RegistryInit /\ BusInit /\ SiteInit /\ mode = "deploy" /\ FnInit
NextBus ==
    \/ \E t \in Types, cb \in Callbacks : Subscribe(t, cb) /\ BusFrame
    \/ \E h \in handles \cup ForeignHandles : Unsubscribe(h) /\ BusFrame
    \/ \E t \in Types, pr \in Properties : PublishBegin(t, pr) /\ BusFrame
    \/ Deliver /\ BusFrame
    \/ PublishEnd /\ BusFrame
SpecBus == InitBus /\ [][NextBus]_vars

InitSite == RegistryInit /\ BusInit /\ sourceID = "id1" /\ SiteInit /\ FnInit
NextSite ==
    \* sites are declared, without props.warm, before the drain
    \/ /\ Len(sites) < MaxSites /\ drain = "idle"
       /\ \E isActive \in BOOLEAN, devDeploy \in DevDeploys, devUrl \in DevUrls,
             pathExists \in BOOLEAN, edge \in BOOLEAN, timeout \in Timeouts :
               /\ NewSite("SsrSite", isActive, devDeploy, devUrl, pathExists, edge,
                          timeout, FALSE)
               /\ SiteFrame
    \* a StaticSite has no edge or timeout prop and does not look at its path
    \* before its deferred task runs
    \/ /\ Len(sites) < MaxSites /\ drain = "idle"
       /\ \E isActive \in BOOLEAN, devDeploy \in DevDeploys, devUrl \in DevUrls :
               /\ NewSite("StaticSite", isActive, devDeploy, devUrl, TRUE, FALSE, 10, FALSE)
               /\ SiteFrame
    \/ DrainStart /\ SiteFrame
    \/ TaskStart /\ SiteFrame
    \/ \E hasCmd \in BOOLEAN, parts \in 0..MaxParts : TaskStep(hasCmd, parts) /\ SiteFrame
    \/ TaskEnd /\ SiteFrame
    \/ \E hasCmd \in BOOLEAN : TaskFail(hasCmd) /\ SiteFrame
    \/ DrainEnd /\ SiteFrame
SpecSite == InitSite /\ [][NextSite]_vars

\* The drain of a queue of up to MaxQueue tasks: the sites that add the tasks
\* are declared with default props (an active stack, no dev prop, a valid
\* path and timeout); in dev mode they add the task of a placeholder site.
NextDrain ==
    \/ \E kind \in Kinds :
            /\ Len(sites) < MaxQueue
            /\ NewSite(kind, TRUE, "unset", "undefined", TRUE, FALSE, 10, FALSE)
            /\ SiteFrame
    \/ DrainStart /\ SiteFrame
    \/ TaskStart /\ SiteFrame
    \/ \E hasCmd \in BOOLEAN, parts \in 0..MaxParts : TaskStep(hasCmd, parts) /\ SiteFrame
    \/ TaskEnd /\ SiteFrame
    \/ \E hasCmd \in BOOLEAN : TaskFail(hasCmd) /\ SiteFrame
    \/ DrainEnd /\ SiteFrame
SpecDrain == InitSite /\ [][NextDrain]_vars

-----------------------------------------------------------------------------
(* Claims about the functional-stack registry (checked under SpecRegistry). *)

\* an async body of stack(app, fn) has not resolved yet
Unresolved(app, fn) ==
    \E c \in pending \cup running : c.async /\ c.app = app /\ c.fn = fn

\* C1: once stack(app, fn) has been invoked, every later stack(app, fn) fails
\* with the duplicate-stack error and creates no second stack handle, at
\* whatever point it is issued; stack() is rejected as a duplicate only for
\* an (app, fn) pair it was invoked with before.
C1_DuplicateAlwaysRejected ==
    regLast.op = "stack" =>
        /\ regLast.already => (regLast.result = "StackDuplicates" /\ ~regLast.created)
        /\ regLast.result = "StackDuplicates" => regLast.already

\* C2: under the current application, use(fn) fails with the wrong-order
\* error when no output is stored for fn and otherwise returns the stored
\* value, which is the value the definition returned or resolved to; while
\* an async body of fn is unresolved use(fn) fails, once it has resolved
\* use(fn) succeeds.
C2_UseFollowsResolution ==
    /\ \A fn \in Fns :
         currentApp # "none" =>
            /\ ~MapHas(exportsCache[currentApp], fn)
                  => UseOutcome(fn).result = "StackWrongOrder"
            /\ MapHas(exportsCache[currentApp], fn)
                  => UseOutcome(fn) = [result |-> "ok",
                                       value |-> exportsCache[currentApp][fn]]
            /\ Unresolved(currentApp, fn) => UseOutcome(fn).result = "StackWrongOrder"
    /\ (regLast.op = "return" /\ regLast.result = "ok" /\ currentApp = regLast.app)
          => UseOutcome(regLast.fn) = [result |-> "ok", value |-> regLast.value]

\* C3: use(fn) and dependsOn(fn) executed by a stack body of application A
\* resolve fn against the registry maps of A, whatever stack() calls for
\* other applications were made in between.
C3_BuildsDoNotInterfere ==
    regLast.op \in {"use", "dependsOn"} => regLast.app = regLast.callerApp

\* C4: dependsOn(target) called from the body of a stack adds exactly one
\* dependency, from that stack's handle to target's handle; when target has
\* no handle under the current application it fails with the wrong-order
\* error and adds none.
C4_DependsOnFromCaller ==
    regLast.op = "dependsOn" =>
        IF MapHas(stackCache[regLast.app], regLast.target)
        THEN deps = Append(regLast.before,
                           <<regLast.caller, stackCache[regLast.app][regLast.target]>>)
        ELSE regLast.result = "StackWrongOrder" /\ deps = regLast.before

-----------------------------------------------------------------------------
(* Claims about the event bus (checked under SpecBus).                      *)

\* the subscriptions whose callback a finished publish invoked, in order
DeliveredSubs == [i \in 1..Len(busLast.delivered) |-> busLast.delivered[i].sub]
Occurrences(seq, x) == Cardinality({i \in 1..Len(seq) : seq[i] = x})

\* C7: publish(type, properties) invokes, before it returns, the callback of
\* every subscription registered for type exactly once, in the order the
\* subscriptions were made, no callback of another type, and passes every
\* callback the same envelope, whose sourceID is the one of the bus.
C7_PublishDeliversToAll ==
    busLast.op = "publish" =>
        \* registered when publish was called and not unsubscribed since
        /\ \A i \in 1..Len(busLast.atStart) :
              Occurrences(subscribers(busLast.type), busLast.atStart[i]) = 1
                 => Occurrences(DeliveredSubs, busLast.atStart[i]) = 1
        /\ \A i \in 1..Len(DeliveredSubs) :
              /\ Occurrences(DeliveredSubs, DeliveredSubs[i]) = 1
              /\ DeliveredSubs[i].type = busLast.type
              /\ \A j \in 1..(i - 1) : DeliveredSubs[j].id < DeliveredSubs[i].id
              /\ busLast.delivered[i].payload =
                    [type |-> busLast.type, properties |-> busLast.properties,
                     sourceID |-> sourceID]

\* C8: unsubscribe(handle) removes exactly the subscription object subscribe
\* returned as handle and leaves every other subscription, of every type, in
\* place and in order; a handle that is not registered changes nothing.
C8_UnsubscribeRemovesExactlyHandle ==
    busLast.op = "unsubscribe" =>
        \A t \in Types :
            subscriptions[t] = SelectSeq(busLast.before[t], LAMBDA x : x # busLast.h)

\* C8 witness: a registered handle was unsubscribed while another
\* subscription of the same callback for the same type stays registered
C8_Witness ==
    /\ busLast.op = "unsubscribe"
    /\ Occurrences(busLast.before[busLast.h.type], busLast.h) = 1
    /\ \E i \in 1..Len(subscriptions[busLast.h.type]) :
          subscriptions[busLast.h.type][i].cb = busLast.h.cb

-----------------------------------------------------------------------------
(* Claims about the deferred task queue (checked under SpecDrain).          *)

IsPrefix(a, b) == Len(a) <= Len(b) /\ \A i \in 1..Len(a) : a[i] = b[i]

\* the log of n tasks run one after the other, each to completion
SequentialLog(n) ==
    [i \in 1..(2 * n) |->
        Event(IF i % 2 = 1 THEN "start" ELSE "end", (i + 1) \div 2, "none")]

Ended(k) == \E i \in 1..Len(taskLog) : taskLog[i] = Event("end", k, "none")
HasFailure == \E i \in 1..Len(taskLog) : taskLog[i].ev = "fail"

\* the stages of task k of the queue that have been executed
StagesRun(k) == sites[queued[k].site].done

\* C5: drain() runs each queued task exactly once, in the order the tasks
\* were added, and starts a task only after the previous one has completed,
\* so no two tasks are ever in progress together; after drain() the queue is
\* empty.
C5_DrainSequential ==
    /\ Cardinality(cur) <= 1
    /\ drain = "running" =>
          /\ IsPrefix(taskLog, SequentialLog(Len(queued)))
          /\ \A c \in cur : taskLog[Len(taskLog)] = Event("start", c.task, "none")
          /\ \A k \in 1..Len(queued) :
                StagesRun(k) =
                    IF Ended(k) THEN queued[k].stages
                    ELSE IF \E c \in cur : c.task = k
                    THEN SubSeq(queued[k].stages, 1,
                                (CHOOSE c \in cur : c.task = k).stage - 1)
                    ELSE <<>>
    /\ drain = "done" =>
          /\ taskLog = SequentialLog(Len(queued))
          /\ \A k \in 1..Len(queued) : StagesRun(k) = queued[k].stages
          /\ tasks = <<>>
          /\ cur = {}

\* C5 witness: a queue of at least two tasks has been drained
C5_Witness == drain = "done" /\ Len(queued) >= 2

\* C6: if task k fails during drain(), every task added before k has run to
\* completion, no task added after k is ever started, and drain() fails with
\* the error of task k.
C6_DrainAbortsOnFailure ==
    /\ HasFailure => drain = "failed"
    /\ drain = "failed" =>
          LET k == drainError.task
          IN  /\ k \in 1..Len(queued)
              /\ taskLog = SequentialLog(k - 1)
                              \o << Event("start", k, "none"),
                                    Event("fail", k, drainError.stage) >>
              /\ IsPrefix(StagesRun(k), queued[k].stages)
              /\ Len(StagesRun(k)) < Len(queued[k].stages)
              /\ drainError.stage = queued[k].stages[Len(StagesRun(k)) + 1]
              /\ cur = {}
              /\ \A j \in 1..(k - 1) : StagesRun(j) = queued[j].stages
              /\ \A j \in (k + 1)..Len(queued) :
                    StagesRun(j) = <<>> /\ sites[queued[j].site].builds = 0

\* C6 witness: the second of three tasks failed
C6_Witness == drain = "failed" /\ drainError.task = 2 /\ Len(queued) = 3

-----------------------------------------------------------------------------
(* Claims about the site constructs (checked under SpecSite).               *)

\* nothing of the build pipeline exists for the site
NothingBuilt(site) ==
    /\ site.builds = 0
    /\ site.assets = 0
    /\ ~site.packaged
    /\ ~site.s3deploy
    /\ ~site.bucket
    /\ ~site.distribution
    /\ ~site.behaviors
    /\ ~site.invalidated

DeclaredNoDeployInDev(site) == mode = "dev" /\ site.devDeploy \in {"unset", "false"}

\* C9 as claimed: a site declared with dev.deploy unset or false in dev mode
\* never invokes the build command nor creates assets, an S3 deployment, a
\* bucket, a distribution or static behaviors, at construction or during the
\* drain, and its url is dev.url, or "localhost" when dev.url is unset.
C9_PlaceholderUrlLocalhost ==
    \A i \in 1..Len(sites) :
        DeclaredNoDeployInDev(sites[i]) =>
            /\ NothingBuilt(sites[i])
            /\ Url(sites[i]) = IF sites[i].devUrl = "undefined" THEN "localhost"
                               ELSE sites[i].devUrl

\* C9 as amended: ... and its url is dev.url, which is undefined when dev.url
\* is unset; "localhost" is substituted only in the url variable of the
\* site's function binding.
C9_PlaceholderBuildsNothing ==
    \A i \in 1..Len(sites) :
        DeclaredNoDeployInDev(sites[i]) =>
            /\ NothingBuilt(sites[i])
            /\ Url(sites[i]) = sites[i].devUrl
            /\ BindingUrl(sites[i]) =
                  [type |-> "plain",
                   value |-> IF sites[i].devUrl = "undefined" THEN "localhost"
                             ELSE sites[i].devUrl]

\* C9 witness: the drain has finished, and with it the task of a placeholder
\* SsrSite declared in dev mode without dev.deploy and without dev.url
C9_Witness ==
    /\ drain = "done"
    /\ \E i \in 1..Len(sites) :
          /\ DeclaredNoDeployInDev(sites[i])
          /\ sites[i].kind = "SsrSite"
          /\ sites[i].devUrl = "undefined"
          /\ sites[i].done = DevStages

Stages(kind) == IF kind = "SsrSite" THEN SsrStages ELSE StaticStages

\* the path a site has taken so far: a doNotDeploy site runs no stage of the
\* build pipeline, any other site runs the stages in order, all of them once
\* the drain is done
FollowsItsPath(site) ==
    IF site.doNotDeploy
    THEN /\ NothingBuilt(site)
         /\ IsPrefix(site.done, IF site.kind = "SsrSite" THEN DevStages ELSE <<>>)
    ELSE /\ site.bucket /\ site.distribution
         /\ IsPrefix(site.done, Stages(site.kind))
         /\ drain = "done" => (site.done = Stages(site.kind) /\ site.invalidated)

\* C10 as claimed: a site takes the Placeholder path exactly when the
\* application is in dev mode and dev.deploy is not set for the site; in
\* every other case it follows the full path.
C10_PlaceholderIffDevNoDeploy ==
    /\ (siteLast.op = "new" /\ siteLast.error = "none") =>
          (sites[Len(sites)].doNotDeploy
              <=> (mode = "dev" /\ siteLast.devDeploy # "true"))
    /\ \A i \in 1..Len(sites) : FollowsItsPath(sites[i])

\* C10 as amended: a site takes the Placeholder path exactly when its stack
\* is not active, or the application is in dev mode and dev.deploy is not set
\* for the site; in every other case it follows the full path.
C10_PlaceholderIffInactiveOrDevNoDeploy ==
    /\ (siteLast.op = "new" /\ siteLast.error = "none") =>
          (sites[Len(sites)].doNotDeploy
              <=> (~siteLast.isActive \/ (mode = "dev" /\ siteLast.devDeploy # "true")))
    /\ \A i \in 1..Len(sites) : FollowsItsPath(sites[i])

\* C10 witness: after the drain, one site went through the whole pipeline
\* and another one, declared on an inactive stack outside dev mode, is a
\* placeholder
C10_Witness ==
    /\ drain = "done"
    /\ mode = "deploy"
    /\ \E i, j \in 1..Len(sites) :
          /\ sites[i].doNotDeploy
          /\ ~sites[j].doNotDeploy /\ sites[j].done = Stages(sites[j].kind)

-----------------------------------------------------------------------------
(* Validation in the SsrSite constructor (checked under SpecValidate).      *)

\* props.timeout in seconds, around both ceilings
BoundaryTimeouts == {30, 31, 180, 181}

\* SsrSites declared with every combination of path, edge flag and timeout,
\* on an active stack, followed by the drain of their tasks
NextValidate ==
    \/ \E pathExists \in BOOLEAN, edge \in BOOLEAN,
          timeout \in Timeouts \cup BoundaryTimeouts :
            /\ Len(sites) < MaxSites
            /\ NewSite("SsrSite", TRUE, "unset", "undefined", pathExists, edge, timeout, FALSE)
            /\ SiteFrame
    \/ DrainStart /\ SiteFrame
    \/ TaskStart /\ SiteFrame
    \/ \E hasCmd \in BOOLEAN, parts \in 0..MaxParts : TaskStep(hasCmd, parts) /\ SiteFrame
    \/ TaskEnd /\ SiteFrame
    \/ \E hasCmd \in BOOLEAN : TaskFail(hasCmd) /\ SiteFrame
    \/ DrainEnd /\ SiteFrame
SpecValidate == InitSite /\ [][NextValidate]_vars

\* the constructor that just returned or threw was given a timeout over the
\* ceiling of its kind of execution
OverCeiling ==
    siteLast.timeout > (IF siteLast.edge THEN 30 ELSE 180)

\* a constructor call has just failed with the timeout error
TimeoutErrorRaised(last) == last.op = "new" /\ last.error = "TimeoutTooLong"

\* C11 as claimed: constructing an SsrSite fails with the timeout error
\* exactly when the timeout in seconds exceeds 30 for an edge site or 180 for
\* a regional site (the ceiling itself is accepted).
C11_TimeoutErrorIffOverCeiling ==
    (siteLast.op = "new" /\ siteLast.kind = "SsrSite") =>
        (siteLast.error = "TimeoutTooLong" <=> OverCeiling)

\* C11 as amended: constructing an SsrSite whose source path exists fails
\* with the timeout error exactly when the timeout in seconds exceeds 30 for
\* an edge site or 180 for a regional site (the ceiling itself is accepted;
\* a missing path fails with the no-site error whatever the timeout); the
\* failure is raised in the constructor, which registers no deferred task
\* and creates no construct state, before any build process has run.
C11_TimeoutErrorIffOverCeilingOnExistingPath ==
    /\ [](/\ (siteLast.op = "new" /\ siteLast.kind = "SsrSite") =>
                /\ siteLast.error = "TimeoutTooLong"
                      <=> (siteLast.pathExists /\ OverCeiling)
                /\ siteLast.error = "NoSiteFound" <=> ~siteLast.pathExists
          /\ TimeoutErrorRaised(siteLast) =>
                /\ drain = "idle" /\ taskLog = <<>>
                /\ \A i \in 1..Len(sites) : sites[i].builds = 0
                /\ \A i \in 1..Len(tasks) : tasks[i].site \in 1..Len(sites))
    /\ [][TimeoutErrorRaised(siteLast') => (tasks' = tasks /\ sites' = sites)]_vars

\* C11 witness: an edge site with a timeout of 31 seconds has just been
\* refused, after another site had been constructed and had added its task
C11_Witness ==
    /\ TimeoutErrorRaised(siteLast)
    /\ siteLast.edge /\ siteLast.timeout = 31
    /\ Len(sites) = 1 /\ Len(tasks) = 1

-----------------------------------------------------------------------------
(* The order of the stages of a deployed site's build task (checked under   *)
(* SpecDrain, in deploy mode and in dev mode).                              *)

Range(seq) == {seq[i] : i \in 1..Len(seq)}
PositionIn(seq, x) == CHOOSE i \in 1..Len(seq) : seq[i] = x

\* the order of the pipeline as the site state machine gives it
PipelineOrder == <<"build", "validateOutput", "package", "deploy", "behaviors",
                   "invalidate">>

\* the stages of the pipeline among those executed, in the order of execution
PipelineStagesOf(done) == SelectSeq(done, LAMBDA st : st \in Range(PipelineOrder))

\* the stages of seq respect the order of the pipeline
InPipelineOrder(seq) ==
    \A i, j \in 1..Len(seq) :
        i < j => PositionIn(PipelineOrder, seq[i]) < PositionIn(PipelineOrder, seq[j])

\* the resource of a stage exists exactly when the stage has been executed
ResourcesFollowStages(site) ==
    /\ site.packaged <=> "package" \in Range(site.done)
    /\ site.assets > 0 => site.packaged
    /\ site.s3deploy <=> "deploy" \in Range(site.done)
    /\ site.behaviors <=> "behaviors" \in Range(site.done)
    /\ site.invalidated <=> "invalidate" \in Range(site.done)
    /\ site.builds > 0 =>
          \/ "build" \in Range(site.done)
          \/ drain = "failed" /\ drainError.stage = "build"

\* every stage before the last executed one has been executed before it, and
\* nothing is executed after a failed stage
StagesInSequence(site) ==
    /\ IsPrefix(site.done, Stages(site.kind))
    /\ InPipelineOrder(PipelineStagesOf(site.done))
    /\ ResourcesFollowStages(site)

\* C12 as claimed: the build task of a deployed site performs the stages
\* build command, build-output validation, archive packaging, S3 deployment
\* resource, CDN static behaviors, cache invalidation, in this order, each
\* only after every earlier one succeeded; after a failure no later stage's
\* resource is created.
C12_PipelineStagesAllInOrder ==
    \A i \in 1..Len(sites) :
        ~sites[i].doNotDeploy =>
            /\ StagesInSequence(sites[i])
            /\ drain = "done" => PipelineStagesOf(sites[i].done) = PipelineOrder

\* C12 as amended: ... in this order, where the task of a StaticSite has no
\* CDN static behaviors stage (its behaviors are part of the distribution
\* created in the constructor); each stage starts only after every earlier
\* one succeeded; after a failure no later stage's resource is created.
C12_PipelineStagesInOrder ==
    \A i \in 1..Len(sites) :
        ~sites[i].doNotDeploy =>
            /\ StagesInSequence(sites[i])
            /\ drain = "done" =>
                  PipelineStagesOf(sites[i].done) =
                      IF sites[i].kind = "SsrSite" THEN PipelineOrder
                      ELSE SelectSeq(PipelineOrder, LAMBDA st : st # "behaviors")

\* C12 witness: the archiver failed for a site after its build command and
\* the validation of its output succeeded; the site has no asset, no
\* deployment and no invalidation
C12_Witness ==
    /\ drain = "failed"
    /\ drainError.stage = "package"
    /\ LET site == sites[queued[drainError.task].site]
       IN  /\ site.builds = 1
           /\ "validateOutput" \in Range(site.done)
           /\ ~site.packaged /\ ~site.s3deploy /\ ~site.invalidated

-----------------------------------------------------------------------------
(* The errors of the validation and of the build pipeline of a site        *)
(* (checked under SpecErrors).  A message is the sequence of the literal   *)
(* texts and interpolated values of its template.                          *)

\* the id a site is declared with, props.cdk?.id, props.path
SiteIds == {"web", "admin", "docs"}
CdkIds == {"none", "WebConstruct"}
Paths == {".", "packages/frontend"}

\* super(scope, props?.cdk?.id || id): the id of the construct node
NodeId(id, cdkId) == IF cdkId # "none" THEN cdkId ELSE id

\* what can fail for a site of each kind: the two validations of the
\* SsrSite constructor, the checks and the command of runBuild, the missing
\* build output, the archiver, the missing filename manifest
SsrFailures == {"NoSiteFound", "TimeoutTooLong", "noPackageJson", "noBuildScript",
                "build", "validateOutput", "package"}
StaticFailures == {"validatePath", "build", "validateOutput", "package", "filenames"}

\* the message of the Error thrown
ErrorMessage(kind, failure, id, cdkId, path, edge) ==
    IF kind = "SsrSite"
    THEN CASE failure = "NoSiteFound" -> <<"No site found at \"", path, "\"">>
           [] failure = "TimeoutTooLong" ->
                IF edge
                THEN <<"Timeout must be less than or equal to 30 seconds when the \"edge\" flag is enabled.">>
                ELSE <<"Timeout must be less than or equal to 180 seconds.">>
           [] failure = "noPackageJson" -> <<"No package.json found at \"", path, "\".">>
           [] failure = "noBuildScript" ->
                <<"No \"build\" script found within package.json in \"", path, "\".">>
           [] failure = "build" ->
                <<"There was a problem building the \"", NodeId(id, cdkId), "\" ",
                  "SsrSite", ".">>
           [] failure = "validateOutput" ->
                <<"No server build output found at \"", path, "\"">>
           [] failure = "package" -> <<"There was a problem generating the assets package.">>
    ELSE CASE failure = "validatePath" ->
                <<"No path found at \"", path, "\" for the \"", NodeId(id, cdkId),
                  "\" StaticSite.">>
           [] failure = "build" ->
                <<"There was a problem building the \"", NodeId(id, cdkId),
                  "\" StaticSite.">>
           [] failure = "validateOutput" ->
                <<"No build output found at \"", path, "\" for the \"",
                  NodeId(id, cdkId), "\" StaticSite.">>
           [] failure \in {"package", "filenames"} ->
                <<"There was a problem generating the \"", NodeId(id, cdkId),
                  "\" StaticSite package.">>

\* a validation or a stage of the pipeline of a site fails
SiteFails(kind, failure, id, cdkId, path, edge) ==
    /\ call = NoOp
    /\ call' = [op |-> "siteError", kind |-> kind, failure |-> failure, id |-> id,
                cdkId |-> cdkId, path |-> path, edge |-> edge]
    /\ ret' = [threw |-> "Error",
               message |-> ErrorMessage(kind, failure, id, cdkId, path, edge)]

InitErrors == InitSite /\ mode = "deploy"
NextErrors ==
    \/ \E failure \in SsrFailures, id \in SiteIds, cdkId \in CdkIds, path \in Paths,
          edge \in BOOLEAN :
            SiteFails("SsrSite", failure, id, cdkId, path, edge) /\ FnFrame
    \/ \E failure \in StaticFailures, id \in SiteIds, cdkId \in CdkIds, path \in Paths :
            SiteFails("StaticSite", failure, id, cdkId, path, FALSE) /\ FnFrame
SpecErrors == InitErrors /\ [][NextErrors]_vars

\* C13: every failure raised by the validation or the build pipeline of a
\* site (missing source path, timeout over the ceiling, build command
\* exiting non-zero, missing build output, archiver failure, missing
\* filename manifest) is an error whose message names the site by the
\* identifier it was declared with.
C13_ErrorsNameTheSite ==
    call.op = "siteError" => call.id \in Range(ret.message)

-----------------------------------------------------------------------------
(* Discovery of the archive parts, the loop at the end of createS3Assets   *)
(* (checked under SpecProbe).  The output directory of the archiver is the *)
(* set of the indices n for which part<n>.zip exists.                      *)

MaxPartId == 6
PartIds == 0..MaxPartId
ZipOutDirs == SUBSET PartIds

\* new Asset(this, `Asset${partId}`, { path: zipFilePath })
PartAsset(partId) == [id |-> <<"Asset", partId>>, path |-> <<"part", partId, ".zip">>]

\* (variant: a missing part is skipped when a later part exists)
PartExistsOrLater(dir, partId) == \E n \in dir : n >= partId

\* fs.existsSync(zipFilePath)
PartExists(dir, partId) == partId \in dir

\* const assets = []; for (let partId = 0;; partId++)
ProbeBegin(dir) ==
    /\ call.op = "createS3Assets" => ret.returned
    /\ call' = [op |-> "createS3Assets", dir |-> dir, partId |-> 0]
    /\ ret' = [returned |-> FALSE, threw |-> "none", assets |-> <<>>]

\* one iteration of the loop: break when the file is missing (the function
\* then returns the assets), otherwise push an asset and go on
ProbeStep ==
    /\ call.op = "createS3Assets"
    /\ ~ret.returned
    /\ IF PartExists(call.dir, call.partId)
       THEN /\ ret' = [ret EXCEPT !.assets = Append(ret.assets, PartAsset(call.partId))]
            /\ call' = [call EXCEPT !.partId = call.partId + 1]
       ELSE /\ ret' = [ret EXCEPT !.returned = TRUE]
            /\ call' = call

InitProbe == InitSite /\ mode = "deploy"
NextProbe ==
    \/ \E dir \in ZipOutDirs : ProbeBegin(dir) /\ FnFrame
    \/ ProbeStep /\ FnFrame
\* a loop that is running takes its next iteration
SpecProbe == InitProbe /\ [][NextProbe]_vars /\ WF_vars(ProbeStep /\ FnFrame)

\* the smallest index for which part<k>.zip does not exist
FirstMissing(dir) ==
    CHOOSE k \in 0..(MaxPartId + 1) : k \notin dir /\ \A n \in 0..(k - 1) : n \in dir

Probing == call.op = "createS3Assets" /\ ~ret.returned
ProbeReturned == call.op = "createS3Assets" /\ ret.returned

\* C14: archive-part discovery returns exactly k assets, Asset0..Asset(k-1)
\* in increasing index order, where k is the smallest index for which
\* part<k>.zip does not exist; part files with a greater index are ignored,
\* k = 0 yields an empty list without an error, and the probe loop
\* terminates.
C14_PartDiscovery ==
    /\ [](/\ Probing =>
                /\ call.partId <= FirstMissing(call.dir)
                /\ ret.assets = [i \in 1..call.partId |-> PartAsset(i - 1)]
          /\ ProbeReturned =>
                /\ ret.threw = "none"
                /\ ret.assets = [i \in 1..FirstMissing(call.dir) |-> PartAsset(i - 1)])
    /\ (Probing ~> ProbeReturned)

\* C14 witness: part0.zip .. part4.zip exist, part5.zip does not, part6.zip
\* does, and discovery has returned five assets
C14_Witness ==
    /\ ProbeReturned
    /\ call.dir = {0, 1, 2, 3, 4, 6}
    /\ Len(ret.assets) = 5

-----------------------------------------------------------------------------
(* The identifiers that drive the CDN invalidation (checked under SpecIds). *)
(* A string is the sequence of its pieces; a digest is modelled as the     *)
(* collision-free image of the bytes it was fed.                           *)

MaxAssets == 2

\* the relative paths a client build output can hold, in the sorted order in
\* which glob.sync returns its matches
ClientPaths == << <<"_app", "/", "a.js">>, <<"_app", "/", "b.js">>, <<"index.html">> >>
Contents == {"v1", "v2"}
NoFile == "absent"
\* a client build output: what each path holds
Builds == [1..Len(ClientPaths) -> Contents \cup {NoFile}]

RECURSIVE Concat(_)
\* the concatenation of a list of strings
Concat(strs) == IF strs = <<>> THEN <<>> ELSE Head(strs) \o Concat(Tail(strs))

\* (variant: the digest is also fed the content of every file)
GlobWithContents(build) ==
    LET present == SelectSeq([i \in 1..Len(ClientPaths) |-> i],
                             LAMBDA i : build[i] # NoFile)
    IN  [k \in 1..Len(present) |-> ClientPaths[present[k]] \o <<build[present[k]]>>]

\* glob.sync("**", { dot, nodir, follow, cwd }): the relative paths of the
\* files of the client build output
Glob(build) ==
    LET present == SelectSeq([i \in 1..Len(ClientPaths) |-> i],
                             LAMBDA i : build[i] # NoFile)
    IN  [k \in 1..Len(present) |-> ClientPaths[present[k]]]

\* crypto.createHash(algorithm).update(...).digest("hex")
Digest(algorithm, bytes) == [algorithm |-> algorithm, of |-> bytes]

\* SsrSite.generateBuildId: hash.update(file) for every file in turn
generateBuildId(build) == Digest("sha1", Concat(Glob(build)))

\* the assets of a StaticSite: each has a hash of its content and a path
AssetHashes == {<<"h1">>, <<"h2">>}
AssetPaths == {"part0.zip", "part1.zip"}
Assets == [assetHash : AssetHashes, path : AssetPaths]
AssetLists == UNION {[1..n -> Assets] : n \in 0..MaxAssets}

\* StaticSite.generateInvalidationId
generateInvalidationId(assets) ==
    Digest("md5", Concat([i \in 1..Len(assets) |-> assets[i].assetHash]))

\* two SsrSite builds get their identifier
BuildIds(b1, b2) ==
    /\ call = NoOp
    /\ call' = [op |-> "generateBuildId", a |-> b1, b |-> b2]
    /\ ret' = [a |-> generateBuildId(b1), b |-> generateBuildId(b2)]

\* two StaticSite builds get their identifier
InvalidationIds(l1, l2) ==
    /\ call = NoOp
    /\ call' = [op |-> "generateInvalidationId", a |-> l1, b |-> l2]
    /\ ret' = [a |-> generateInvalidationId(l1), b |-> generateInvalidationId(l2)]

InitIds == InitSite /\ mode = "deploy"
NextIds ==
    \/ call = NoOp /\ \E b1, b2 \in Builds : BuildIds(b1, b2) /\ FnFrame
    \/ call = NoOp /\ \E l1, l2 \in AssetLists : InvalidationIds(l1, l2) /\ FnFrame
SpecIds == InitIds /\ [][NextIds]_vars

\* the relative paths of the files of a build
PathsOf(build) == {ClientPaths[i] : i \in {j \in 1..Len(ClientPaths) : build[j] # NoFile}}
HashesOf(assets) == [i \in 1..Len(assets) |-> assets[i].assetHash]

-----------------------------------------------------------------------------
(* The permission resolver, permissionsToStatementsAndGrants and its two   *)
(* callers (checked under SpecPermissions).  A JavaScript value is a       *)
(* record tagged with its type; a string is the sequence of its pieces.    *)

MaxPerms == 2

Str(chars) == [t |-> "string", chars |-> chars]
Null == [t |-> "null"]
Undefined == [t |-> "undefined"]
Num(n) == [t |-> "number", n |-> n]
Arr(items) == [t |-> "array", items |-> items]
\* an object: its class, its identity, the names of its truthy properties
\* and the names of its properties that are functions
Obj(cls, id, fields, methods) ==
    [t |-> "object", cls |-> cls, id |-> id, fields |-> fields, methods |-> methods]

\* the constructs of this library the resolver tests with instanceof
SstClasses == {"Api", "ApiGatewayV1Api", "WebSocketApi", "AppSyncApi", "Table", "Topic",
               "Queue", "EventBus", "KinesisStream", "Bucket", "RDS", "Function", "Job"}
\* classes of aws-cdk-lib
CdkClasses == {"PolicyStatement", "CdkTable", "CdkTopic", "CdkQueue", "CdkEventBus",
               "CdkStream", "CdkDeliveryStream", "CdkBucket", "CdkCluster",
               "CdkFunction"}

\* isCDKConstructOf(value, "aws-cdk-lib.aws_iam.PolicyStatement")
isPolicyStatement(v) == v.t = "object" /\ v.cls = "PolicyStatement"
\* isCDKConstruct(value)
isCDKConstruct(v) == v.t = "object" /\ v.cls \in CdkClasses
\* value instanceof <class of this library>
InstanceOf(v, cls) == v.t = "object" /\ v.cls = cls
\* value.name is truthy (the property access itself throws on null and
\* undefined)
Truthy(v, name) == v.t = "object" /\ name \in v.fields
\* typeof construct[methodName] === "function"
IsFunction(construct, methodName) ==
    /\ construct.t = "object"
    /\ methodName.t = "string"
    /\ methodName.chars \in construct.methods

\* a resource of a statement: the value of an ARN-like property of an
\* object, possibly followed by a suffix, or the wildcard
Arn(v, name) == [of |-> v.id, prop |-> name, suffix |-> ""]
ArnAll(v, name) == [of |-> v.id, prop |-> name, suffix |-> "/*"]
AnyResource == [of |-> "*", prop |-> "", suffix |-> ""]

\* new iam.PolicyStatement({ effect, actions, resources })
PolicyStatement(effect, actions, resources) ==
    [t |-> "object", cls |-> "PolicyStatement", id |-> "statement", fields |-> {},
     methods |-> {<<"addActions">>, <<"addResources">>},
     effect |-> effect, actions |-> actions, resources |-> resources]

\* buildPolicyStatement(actions, resources)
Action(service, name) == Str(<<service, ":", name>>)

\* the characters of each action of a list of action strings
ActionChars(items) ==
    [i \in 1..Len(items) |-> IF items[i].t = "string" THEN items[i].chars ELSE <<>>]

buildPolicyStatement(actions, resources) ==
    PolicyStatement("Allow",
                    IF actions.t = "string" THEN <<actions.chars>>
                    ELSE ActionChars(actions.items),
                    resources)

\* permission.indexOf(":") === -1 ? `${permission}:*` : permission
WithDefaultAction(permission) ==
    IF \A i \in 1..Len(permission.chars) : permission.chars[i] # ":"
    THEN Str(permission.chars \o <<":", "*">>)
    ELSE permission

Resolved(statements, grants) ==
    [threw |-> "none", statements |-> statements, grants |-> grants]
Thrown(error) == [threw |-> error, statements |-> <<>>, grants |-> <<>>]

\* the statements of a construct of this library, lines 97-159
SstStatements(p) ==
    CASE p.cls \in {"Api", "ApiGatewayV1Api"} ->
            << buildPolicyStatement(Action("execute-api", "Invoke"), <<ArnAll(p, "apiId")>>) >>
      [] p.cls = "WebSocketApi" ->
            << buildPolicyStatement(Action("execute-api", "Invoke"), <<ArnAll(p, "apiId")>>),
               buildPolicyStatement(Action("execute-api", "ManageConnections"),
                                    <<Arn(p, "_connectionsArn")>>) >>
      [] p.cls = "AppSyncApi" ->
            << buildPolicyStatement(Action("appsync", "GraphQL"), <<ArnAll(p, "apiId")>>) >>
      [] p.cls = "Table" ->
            << buildPolicyStatement(Action("dynamodb", "*"),
                                    <<Arn(p, "tableArn"), ArnAll(p, "tableArn")>>) >>
      [] p.cls = "Topic" ->
            << buildPolicyStatement(Action("sns", "*"), <<Arn(p, "topicArn")>>) >>
      [] p.cls = "Queue" ->
            << buildPolicyStatement(Action("sqs", "*"), <<Arn(p, "queueArn")>>) >>
      [] p.cls = "EventBus" ->
            << buildPolicyStatement(Action("events", "*"), <<Arn(p, "eventBusArn")>>) >>
      [] p.cls = "KinesisStream" ->
            << buildPolicyStatement(Action("kinesis", "*"), <<Arn(p, "streamArn")>>) >>
      [] p.cls = "Bucket" ->
            << buildPolicyStatement(Action("s3", "*"),
                                    <<Arn(p, "bucketArn"), ArnAll(p, "bucketArn")>>) >>
      [] p.cls = "RDS" ->
            << buildPolicyStatement(Action("rds-data", "*"), <<Arn(p, "clusterArn")>>) >>
            \o (IF "secret" \in p.fields
                THEN << buildPolicyStatement(
                           Arr(<<Action("secretsmanager", "GetSecretValue"),
                                 Action("secretsmanager", "DescribeSecret")>>),
                           <<Arn(p, "secretArn")>>) >>
                ELSE <<>>)
      [] p.cls \in {"Function", "Job"} ->
            << buildPolicyStatement(Action("lambda", "*"), <<Arn(p, "functionArn")>>) >>

\* the pairs of properties by which a foreign construct is recognized,
\* lines 163-199, in the order they are tested
DuckPairs == << <<"tableArn", "tableName", "dynamodb", TRUE>>,
                <<"topicArn", "topicName", "sns", FALSE>>,
                <<"queueArn", "queueName", "sqs", FALSE>>,
                <<"eventBusArn", "eventBusName", "events", FALSE>>,
                <<"streamArn", "streamName", "kinesis", FALSE>>,
                <<"deliveryStreamArn", "deliveryStreamName", "firehose", FALSE>>,
                <<"bucketArn", "bucketName", "s3", TRUE>> >>

DuckMatches(p) == {i \in 1..Len(DuckPairs) :
                      Truthy(p, DuckPairs[i][1]) /\ Truthy(p, DuckPairs[i][2])}

\* the statement of the first pair that matches
DuckStatements(p) ==
    LET i == CHOOSE k \in DuckMatches(p) : \A m \in DuckMatches(p) : k <= m
        d == DuckPairs[i]
    IN  << buildPolicyStatement(Action(d[3], "*"),
                                IF d[4] THEN <<Arn(p, d[1]), ArnAll(p, d[1])>>
                                ELSE <<Arn(p, d[1])>>) >>

\* (variant: the secret of a cluster gets no statement)
ClusterStatementsNoSecret(p) ==
    << buildPolicyStatement(Action("rds-data", "*"), <<Arn(p, "clusterArn")>>) >>

\* a foreign cluster, lines 200-213
ClusterStatements(p) ==
    << buildPolicyStatement(Action("rds-data", "*"), <<Arn(p, "clusterArn")>>) >>
    \o (IF "secret" \in p.fields
        THEN << buildPolicyStatement(
                   Arr(<<Action("secretsmanager", "GetSecretValue"),
                         Action("secretsmanager", "DescribeSecret")>>),
                   <<Arn(p, "secretArn")>>) >>
        ELSE <<>>)
    \o (IF "secret" \in p.fields /\ "encryptionKey" \in p.fields
        THEN << buildPolicyStatement(Arr(<<Action("kms", "Decrypt")>>),
                                     <<Arn(p, "keyArn")>>) >>
        ELSE <<>>)

\* Array.isArray(permission) && permission.length === 2 &&
\* isCDKConstruct(permission[0]) && typeof permission[1] === "string"
LooksLikeGrant(p) ==
    /\ p.t = "array"
    /\ Len(p.items) = 2
    /\ isCDKConstruct(p.items[1])
    /\ p.items[2].t = "string"

\* (variant: the method named by a grant tuple is not looked up)
GrantAcceptedUnchecked(p) == TRUE

\* typeof construct[methodName] === "function", line 223
GrantAccepted(p) == IsFunction(p.items[1], p.items[2])

\* the body of permissions.forEach, lines 80-231, for one element
ResolveElement(p) ==
    IF p.t = "string"
    THEN Resolved(<<buildPolicyStatement(WithDefaultAction(p), <<AnyResource>>)>>, <<>>)
    ELSE IF isPolicyStatement(p) THEN Resolved(<<p>>, <<>>)
    ELSE IF \E cls \in SstClasses : InstanceOf(p, cls)
    THEN Resolved(SstStatements(p), <<>>)
    \* permission.tableArn on null or undefined
    ELSE IF p.t \in {"null", "undefined"} THEN Thrown("TypeError")
    ELSE IF DuckMatches(p) # {} THEN Resolved(DuckStatements(p), <<>>)
    ELSE IF Truthy(p, "clusterArn") THEN Resolved(ClusterStatements(p), <<>>)
    ELSE IF LooksLikeGrant(p)
    THEN IF GrantAccepted(p) THEN Resolved(<<>>, <<p>>)
         ELSE Thrown("IncorrectGrantMethod")
    ELSE Thrown("PermissionsNotSupported")

RECURSIVE ResolveList(_, _)
\* permissions.forEach: the elements in turn, until one throws
ResolveList(items, acc) ==
    IF items = <<>> THEN acc
    ELSE LET r == ResolveElement(Head(items))
         IN  IF r.threw # "none" THEN Thrown(r.threw)
             ELSE ResolveList(Tail(items),
                              Resolved(acc.statements \o r.statements,
                                       acc.grants \o r.grants))

\* (variant: a list holding the marker is treated as the marker)
IsAllAccessMarkerOrListOfIt(permissions) ==
    \/ permissions = Str(<<"*">>)
    \/ permissions.t = "array" /\ \E i \in 1..Len(permissions.items) :
                                      permissions.items[i] = Str(<<"*">>)

\* permissions === "*"
IsAllAccessMarker(permissions) == permissions = Str(<<"*">>)

permissionsToStatementsAndGrants(permissions) ==
    IF IsAllAccessMarker(permissions)
    THEN Resolved(<<buildPolicyStatement(permissions, <<AnyResource>>)>>, <<>>)
    ELSE IF permissions.t # "array" THEN Thrown("PermissionsNotSupportedNotArray")
    ELSE ResolveList(permissions.items, Resolved(<<>>, <<>>))

\* ---- the values the resolver is called with ----

\* foreign clusters: without a secret, with one, with an encrypted one
Clusters ==
    {Obj("CdkCluster", "cdkCluster", {"clusterArn"}, {}),
     Obj("CdkCluster", "cdkClusterWithSecret", {"clusterArn", "secret"}, {}),
     Obj("CdkCluster", "cdkClusterWithKey", {"clusterArn", "secret", "encryptionKey"}, {})}

\* constructs of this library
SstHandles ==
    {Obj(cls, cls, {}, {}) : cls \in SstClasses \ {"RDS"}}
        \cup {Obj("RDS", "RDS", {}, {}), Obj("RDS", "RDSWithSecret", {"secret"}, {})}

\* constructs of aws-cdk-lib recognized by a pair of properties, and clusters
CdkHandles ==
    {Obj("CdkTable", "cdkTable", {"tableArn", "tableName"}, {<<"grantReadData">>}),
     Obj("CdkTopic", "cdkTopic", {"topicArn", "topicName"}, {<<"grantPublish">>}),
     Obj("CdkQueue", "cdkQueue", {"queueArn", "queueName"}, {<<"grantSendMessages">>}),
     Obj("CdkEventBus", "cdkBus", {"eventBusArn", "eventBusName"}, {}),
     Obj("CdkStream", "cdkStream", {"streamArn", "streamName"}, {}),
     Obj("CdkDeliveryStream", "cdkFirehose",
         {"deliveryStreamArn", "deliveryStreamName"}, {}),
     Obj("CdkBucket", "cdkBucket", {"bucketArn", "bucketName"}, {<<"grantRead">>})}
        \cup Clusters

\* a construct of aws-cdk-lib the resolver has no branch for
CdkFunction == Obj("CdkFunction", "cdkFunction", {"functionArn", "functionName"},
                   {<<"grantInvoke">>})
CdkTopic == Obj("CdkTopic", "cdkTopic", {"topicArn", "topicName"}, {<<"grantPublish">>})

\* objects of no known class
PlainObject == Obj("Object", "plain", {}, {})
ForeignTable == Obj("Object", "foreignTable", {"tableArn", "tableName"}, {})
ArnOnly == Obj("Object", "arnOnly", {"queueArn"}, {})

UserStatement ==
    PolicyStatement("Allow", <<<<"s3", ":", "*">>>>,
                    <<[of |-> "bucket", prop |-> "bucketArn", suffix |-> "/private/*"]>>)

\* [construct, methodName] with a method that exists
ValidGrants == {Arr(<<CdkFunction, Str(<<"grantInvoke">>)>>),
                Arr(<<CdkTopic, Str(<<"grantPublish">>)>>)}
\* pairs and arrays that are no valid grant
InvalidGrants == {Arr(<<CdkTopic, Str(<<"grantSubscribe">>)>>),
                  Arr(<<CdkTopic, Str(<<"topicArn">>)>>),
                  Arr(<<PlainObject, Str(<<"grantPublish">>)>>),
                  Arr(<<CdkTopic, Num(1)>>),
                  Arr(<<CdkTopic, Str(<<"grantPublish">>), Str(<<"extra">>)>>),
                  Arr(<<>>)}

Strings == {Str(<<"*">>), Str(<<"s3">>), Str(<<"s3", ":", "GetObject">>)}
Unrecognized == {Null, Undefined, Num(1), PlainObject, ArnOnly, CdkFunction}

\* new iam.PolicyStatement({ effect: iam.Effect.DENY, ... }) written by a caller
UserDenyStatement ==
    PolicyStatement("Deny", <<<<"s3", ":", "DeleteObject">>>>, <<AnyResource>>)

PermissionElements ==
    Strings \cup {UserStatement, UserDenyStatement} \cup SstHandles \cup CdkHandles \cup {ForeignTable}
        \cup ValidGrants \cup InvalidGrants \cup Unrecognized

PermissionLists == UNION {[1..n -> PermissionElements] : n \in 0..MaxPerms}

\* what a caller can pass as permissions
PermissionValues ==
    {Str(<<"*">>), Str(<<"s3">>), Null, Undefined, Num(1), PlainObject}
        \cup {Arr(l) : l \in PermissionLists}

\* ---- the calls ----

\* permissionsToStatementsAndGrants(permissions)
Resolve(permissions) ==
    /\ call = NoOp
    /\ call' = [op |-> "permissionsToStatementsAndGrants", permissions |-> permissions]
    /\ ret' = permissionsToStatementsAndGrants(permissions)

\* what an attach call did: the error thrown, the statements added to the
\* role or policy, the grant tuples whose method was invoked on it
Attached(threw, added, granted, calls) ==
    [threw |-> threw, added |-> added, granted |-> granted, calls |-> calls]

\* the calls made on the role or policy, in the order they are made:
\* addToPolicy / addStatements with a statement, a grant method with the role
AddCall(statement) == [kind |-> "add", what |-> statement]
GrantCall(grant) == [kind |-> "grant", what |-> grant]
AddCalls(statements) == [i \in 1..Len(statements) |-> AddCall(statements[i])]
GrantCalls(grants) == [i \in 1..Len(grants) |-> GrantCall(grants[i])]

\* attachPermissionsToRole(role, permissions)
\* a role that would invoke the grant methods before adding the statements
attachPermissionsToRoleGrantsFirst(permissions) ==
    LET r == permissionsToStatementsAndGrants(permissions)
    IN  IF r.threw # "none" THEN Attached(r.threw, <<>>, <<>>, <<>>)
        ELSE Attached("none", r.statements, r.grants,
                      GrantCalls(r.grants) \o AddCalls(r.statements))

attachPermissionsToRole(permissions) ==
    LET r == permissionsToStatementsAndGrants(permissions)
    IN  IF r.threw # "none" THEN Attached(r.threw, <<>>, <<>>, <<>>)
        ELSE Attached("none", r.statements, r.grants,
                      AddCalls(r.statements) \o GrantCalls(r.grants))

\* a policy that would invoke the grant methods as a role does
attachPermissionsToPolicyInvokingGrants(permissions) ==
    LET r == permissionsToStatementsAndGrants(permissions)
    IN  IF r.threw # "none" THEN Attached(r.threw, <<>>, <<>>, <<>>)
        ELSE Attached("none", r.statements, r.grants,
                      AddCalls(r.statements) \o GrantCalls(r.grants))

\* attachPermissionsToPolicy(policy, permissions): the statements are added
\* before the first grant throws
attachPermissionsToPolicy(permissions) ==
    LET r == permissionsToStatementsAndGrants(permissions)
    IN  IF r.threw # "none" THEN Attached(r.threw, <<>>, <<>>, <<>>)
        ELSE IF r.grants # <<>>
        THEN Attached("CannotAttachGrant", r.statements, <<>>, AddCalls(r.statements))
        ELSE Attached("none", r.statements, <<>>, AddCalls(r.statements))

AttachToRole(permissions) ==
    /\ call = NoOp
    /\ call' = [op |-> "attachPermissionsToRole", permissions |-> permissions]
    /\ ret' = attachPermissionsToRole(permissions)

AttachToPolicy(permissions) ==
    /\ call = NoOp
    /\ call' = [op |-> "attachPermissionsToPolicy", permissions |-> permissions]
    /\ ret' = attachPermissionsToPolicy(permissions)

InitPermissions == InitSite /\ mode = "deploy"
\* one call is made per behaviour: the values are enumerated only while no
\* call has been made
NextPermissions ==
    \/ call = NoOp /\ \E p \in PermissionValues : Resolve(p) /\ FnFrame
    \/ call = NoOp /\ \E p \in PermissionValues : AttachToRole(p) /\ FnFrame
    \/ call = NoOp /\ \E p \in PermissionValues : AttachToPolicy(p) /\ FnFrame
SpecPermissions == InitPermissions /\ [][NextPermissions]_vars

\* ---- claims ----

Resolving == call.op = "permissionsToStatementsAndGrants"
IsList(v) == v.t = "array"
Count(seq, x) == Cardinality({i \in 1..Len(seq) : seq[i] = x})

\* allow, actions ["*"], resources ["*"]
WildcardStatement == PolicyStatement("Allow", <<<<"*">>>>, <<AnyResource>>)
\* what the element "*" of a list resolves to: allow, actions ["*:*"]
StarElementStatement == PolicyStatement("Allow", <<<<"*", ":", "*">>>>, <<AnyResource>>)

\* C16: resolving the all-access marker "*" yields exactly one statement
\* (allow, actions ["*"], resources ["*"]) and an empty grants list; a list
\* is never treated as the marker: a list containing the string "*" goes
\* through the resolution of its elements.
C16_MarkerResolvesToWildcard ==
    Resolving =>
        /\ call.permissions = Str(<<"*">>) =>
              ret = Resolved(<<WildcardStatement>>, <<>>)
        /\ IsList(call.permissions) =>
              LET items == call.permissions.items
              IN  /\ ret.threw = "none" <=>
                        \A i \in 1..Len(items) : ResolveElement(items[i]).threw = "none"
                  /\ ret.threw = "none" =>
                        /\ Count(ret.statements, WildcardStatement) = 0
                        /\ Count(ret.statements, StarElementStatement)
                              = Count(items, Str(<<"*">>))
                        /\ Len(ret.statements) + Len(ret.grants) >= Len(items)

\* C16 witness: the list ["*", "*"] has been resolved to two statements
C16_Witness ==
    /\ Resolving
    /\ call.permissions = Arr(<<Str(<<"*">>), Str(<<"*">>)>>)
    /\ Len(ret.statements) = 2

\* the resource handles the resolver recognizes
RecognizedHandles == SstHandles \cup CdkHandles \cup {ForeignTable}

\* the secondary resources of a handle: the connections of a WebSocket API,
\* the secret of a relational cluster and the key that secret is encrypted
\* with
SecondaryResources(h) ==
    (IF h.cls = "WebSocketApi" THEN {"_connectionsArn"} ELSE {})
        \cup (IF "secret" \in h.fields THEN {"secretArn"} ELSE {})
        \cup (IF {"secret", "encryptionKey"} \subseteq h.fields THEN {"keyArn"} ELSE {})

RECURSIVE StatementsExpected(_)
\* how many statements a list of handles and grant tuples should give
StatementsExpected(items) ==
    IF items = <<>> THEN 0
    ELSE (IF Head(items) \in RecognizedHandles
          THEN 1 + Cardinality(SecondaryResources(Head(items))) ELSE 0)
         + StatementsExpected(Tail(items))

\* the statements that name a resource of the handle
StatementsAbout(statements, h) ==
    SelectSeq(statements, LAMBDA s : \E i \in 1..Len(s.resources) : s.resources[i].of = h.id)

MatchesNoVariant(p) ==
    p \in Unrecognized \cup {g \in InvalidGrants : ~LooksLikeGrant(g)}

\* the elements before position i resolve without an error
EarlierResolve(items, i) ==
    \A j \in 1..(i - 1) : ResolveElement(items[j]).threw = "none"

\* C18: resolution fails with the unsupported-permissions error when the
\* permissions value is neither "*" nor an array, and when a list element
\* matches no recognized variant (null, undefined, a number, a plain object
\* without a recognized pair of properties, a pair whose first item is no
\* CDK construct); no such input makes resolution succeed or fail with
\* another kind of error.
C18_UnsupportedInputsRejected ==
    Resolving =>
        /\ (call.permissions # Str(<<"*">>) /\ ~IsList(call.permissions)) =>
              ret.threw = "PermissionsNotSupportedNotArray"
        /\ IsList(call.permissions) =>
              \A i \in 1..Len(call.permissions.items) :
                  (/\ MatchesNoVariant(call.permissions.items[i])
                   /\ EarlierResolve(call.permissions.items, i))
                  => ret.threw = "PermissionsNotSupported"

\* a two-element entry [construct, methodName] with a CDK construct and a
\* string
GrantShaped(p) ==
    /\ IsList(p)
    /\ Len(p.items) = 2
    /\ p.items[1].t = "object" /\ p.items[1].cls \in CdkClasses
    /\ p.items[2].t = "string"

\* construct[methodName] is a function
MethodCallable(p) == p.items[2].chars \in p.items[1].methods

\* the list without its element at position i
Without(items, i) == SubSeq(items, 1, i - 1) \o SubSeq(items, i + 1, Len(items))

-----------------------------------------------------------------------------
(* The auth handler, src/dist/node/future/auth/handler.js: the steps        *)
(* "authorize" and the provider callback, up to the call of the adapter.    *)

\* useCookie("provider") / useQueryParam("provider") found nothing
NoProvider == "undefined"

\* the keys of input.providers
ConfiguredProviders == {"google"}

\* names every object inherits from Object.prototype: input.providers[name]
\* is truthy for them although name is no key of input.providers
InheritedNames == {"__proto__", "toString", "constructor"}

\* the inherited names whose value is a function
InheritedFunctions == {"toString", "constructor"}

\* the provider identifiers a request can carry
ProviderNames == {NoProvider, "bogus"} \cup ConfiguredProviders \cup InheritedNames

AuthSteps == {"authorize", "callback"}

\* input.onError: absent, or a function returning a response or undefined,
\* directly or (as declared in handler.d.ts) through a promise
ErrorHooks == {"none", "response", "undefined", "promiseOfResponse", "promiseOfUndefined"}

\* the type of the result of a configured adapter ("success" goes on to
\* input.onSuccess and is left out)
AdapterResults == {"step", "error", "other"}

HandlerResult(response, adapterInvoked, hookInvoked) ==
    [response |-> response, adapterInvoked |-> adapterInvoked,
     hookInvoked |-> hookInvoked]

\* input.providers[provider] is truthy, line 163
ProviderLookup(provider) == provider \in ConfiguredProviders \cup InheritedNames

\* lines 164-173: a promise is truthy and is returned as it is, so the
\* handler resolves to whatever the promise resolves to
HookResponse(hook) ==
    CASE hook = "none" -> "unknownProvider400"
      [] hook = "response" -> "hookResponse"
      [] hook = "undefined" -> "unknownProvider400"
      [] hook = "promiseOfResponse" -> "hookResponse"
      [] hook = "promiseOfUndefined" -> "undefined"

\* lines 175-279 without the success branch
CallAdapter(provider, adapterResult) ==
    IF provider \in ConfiguredProviders
    THEN CASE adapterResult = "step" -> HandlerResult("adapterStep", TRUE, FALSE)
           [] adapterResult = "error" -> HandlerResult("adapterError400", TRUE, FALSE)
           [] OTHER -> HandlerResult("undefined", TRUE, FALSE)
    ELSE IF provider \in InheritedFunctions
    \* Object.prototype.toString(evt) or Object(evt): no result.type
    THEN HandlerResult("undefined", TRUE, FALSE)
    \* Object.prototype is not a function
    ELSE HandlerResult("TypeError", FALSE, FALSE)

\* lines 92-279
AuthHandler(step, cookie, query, paramsOk, hook, adapterResult) ==
    LET provider == IF step = "authorize" THEN query ELSE cookie
    IN  IF step = "authorize" /\ provider = NoProvider
        THEN HandlerResult("missingProvider400", FALSE, FALSE)
        ELSE IF step = "authorize" /\ ~paramsOk
        THEN HandlerResult("authorizeParameter400", FALSE, FALSE)
        ELSE IF provider = NoProvider \/ ~ProviderLookup(provider)
        THEN HandlerResult(HookResponse(hook), FALSE, hook # "none")
        ELSE CallAdapter(provider, adapterResult)

Handle(step, cookie, query, paramsOk, hook, adapterResult) ==
    /\ call = NoOp
    /\ call' = [op |-> "AuthHandler", step |-> step, cookie |-> cookie,
                query |-> query, paramsOk |-> paramsOk, hook |-> hook,
                adapterResult |-> adapterResult]
    /\ ret' = AuthHandler(step, cookie, query, paramsOk, hook, adapterResult)

InitAuth == InitSite /\ mode = "deploy"
NextAuth ==
    call = NoOp /\ \E step \in AuthSteps, cookie \in ProviderNames, query \in ProviderNames,
                      paramsOk \in BOOLEAN, hook \in ErrorHooks,
                      adapterResult \in AdapterResults :
                        Handle(step, cookie, query, paramsOk, hook, adapterResult) /\ FnFrame
SpecAuth == InitAuth /\ [][NextAuth]_vars

\* the provider the request selects
SelectedProvider == IF call.step = "authorize" THEN call.query ELSE call.cookie

\* the request gets as far as the test of the provider
ReachesProviderCheck ==
    /\ call.op = "AuthHandler"
    /\ call.step = "authorize" => (call.query # NoProvider /\ call.paramsOk)

\* C21: when the selected provider is missing or is not a key of the
\* configured providers, the result of the handler is the response of the
\* onError hook when the hook is supplied and produces one, and the fixed
\* 400 response otherwise; no adapter is invoked and the handler never ends
\* without a response.
C21_UnknownProviderHandled ==
    (ReachesProviderCheck /\ SelectedProvider \notin ConfiguredProviders) =>
        /\ ~ret.adapterInvoked
        /\ ret.response =
              IF call.hook \in {"response", "promiseOfResponse"}
              THEN "hookResponse" ELSE "unknownProvider400"

-----------------------------------------------------------------------------
(* Configuration errors of the site constructs (checked under SpecConfig).  *)

\* sites of both kinds declared on an active stack with every combination of
\* path, edge flag, timeout and warm prop, followed by the drain of their
\* tasks
NextConfig ==
    \/ \E pathExists \in BOOLEAN, edge \in BOOLEAN, timeout \in Timeouts,
          warm \in BOOLEAN :
            /\ Len(sites) < MaxSites
            /\ NewSite("SsrSite", TRUE, "unset", "undefined", pathExists, edge, timeout,
                       warm)
            /\ SiteFrame
    \/ /\ Len(sites) < MaxSites
       /\ NewSite("StaticSite", TRUE, "unset", "undefined", TRUE, FALSE, 10, FALSE)
       /\ SiteFrame
    \/ DrainStart /\ SiteFrame
    \/ TaskStart /\ SiteFrame
    \/ \E hasCmd \in BOOLEAN, parts \in 0..MaxParts : TaskStep(hasCmd, parts) /\ SiteFrame
    \/ TaskEnd /\ SiteFrame
    \/ \E hasCmd \in BOOLEAN : TaskFail(hasCmd) /\ SiteFrame
    \/ DrainEnd /\ SiteFrame
SpecConfig == InitSite /\ [][NextConfig]_vars

\* the stages whose failure is a configuration error: the missing source
\* path of a StaticSite and warming requested on an edge site
ConfigErrorStages == {"validatePath", "warmer"}

\* C24: every configuration error of a site construct (missing source path,
\* timeout over the ceiling, warming requested together with edge mode) is
\* raised synchronously while the construct is declared, never later during
\* the drain of the deferred tasks.
C24_ConfigErrorsAreSynchronous ==
    /\ drainError.stage \notin ConfigErrorStages
    /\ \A i \in 1..Len(sites) : ~(sites[i].warmOnEdge /\ ~sites[i].doNotDeploy)

\* the site just declared is a placeholder
DeclaredPlaceholder ==
    /\ siteLast.op = "new"
    /\ DoNotDeploy(siteLast.isActive, siteLast.devDeploy)

\* C26: a site that takes the Placeholder path performs none of the checks of
\* the Validated stage: constructing a placeholder site never fails because
\* its source path is missing or its timeout exceeds the ceiling.
C26_PlaceholderSkipsValidation ==
    DeclaredPlaceholder => siteLast.error = "none"

-----------------------------------------------------------------------------
(* The environment of a site: what the build command is given and what the  *)
(* S3 deployment replaces (src/constructs/BaseSite.js, SsrSite.js lines     *)
(* 272-282 and 766-787, part_000 lines 189-199 and 439-456).                *)
(* A string is the sequence of the pieces it is put together from.          *)

\* the names of the variables of props.environment, in insertion order
SiteKeys == <<"API_URL", "PATH">>
\* the names of the variables of process.env
ProcessKeys == {"PATH", "SST"}

\* a value of props.environment: a literal, or a token of a resource that is
\* not deployed yet
Literal(text) == [unresolved |-> FALSE, text |-> text]
UnresolvedToken(text) == [unresolved |-> TRUE, text |-> text]
SiteValues == {Literal("https://example.com"), UnresolvedToken("${Token[TOKEN.1]}"),
               UnresolvedToken("${Token[TOKEN.2]}")}
ProcessValues == {<<"/usr/bin">>, <<"0">>}

SiteEnvironments == UNION {[S -> SiteValues] : S \in SUBSET Range(SiteKeys)}
ProcessEnvironments == UNION {[S -> ProcessValues] : S \in SUBSET ProcessKeys}

\* Token.isUnresolved(value)
IsUnresolved(value) == value.unresolved

\* `{{ ${key} }}`
Placeholder(key) == <<"{{ ", key, " }}">>

\* getBuildCmdEnvironment(siteEnvironment), BaseSite.js lines 31-43
getBuildCmdEnvironment(siteEnvironment) ==
    [key \in DOMAIN siteEnvironment |->
        IF IsUnresolved(siteEnvironment[key]) THEN Placeholder(key)
        ELSE <<siteEnvironment[key].text>>]

\* (variant: the entries of the first object win a name clash)
SpreadKeepingFirst(a, b) ==
    [k \in (DOMAIN a) \cup (DOMAIN b) |-> IF k \in DOMAIN a THEN a[k] ELSE b[k]]

\* { ...a, ...b }
Spread(a, b) ==
    [k \in (DOMAIN a) \cup (DOMAIN b) |-> IF k \in DOMAIN b THEN b[k] ELSE a[k]]

\* the env option of execSync: SsrSite.js lines 276-280, part_000 lines
\* 195-198
BuildCommandEnv(kind, processEnv, siteEnvironment) ==
    Spread(Spread(IF kind = "SsrSite" THEN [k \in {"SST"} |-> <<"1">>] ELSE EmptyMap,
                  processEnv),
           getBuildCmdEnvironment(siteEnvironment))

\* the file patterns one variable is replaced in: SsrSite.js lines 772-784,
\* part_000 lines 445-453
ContentPatterns(kind) ==
    IF kind = "SsrSite" THEN <<"**/*.html", "**/*.js", "**/*.json">>
    ELSE <<"**/*.html", "**/*.js">>

\* props.replaceValues of a StaticSite
UserReplaceValues ==
    {<<>>, <<[files |-> "**/*.js", search |-> <<"{{ VERSION }}">>,
              replace |-> Literal("1.0.0")]>>}

\* the names of the unresolved variables, in the order of Object.entries
UnresolvedKeys(siteEnvironment) ==
    SelectSeq(SiteKeys, LAMBDA key : /\ key \in DOMAIN siteEnvironment
                                     /\ IsUnresolved(siteEnvironment[key]))

\* getS3ContentReplaceValues()
getS3ContentReplaceValues(kind, siteEnvironment, replaceValues) ==
    LET keys == UnresolvedKeys(siteEnvironment)
        patterns == ContentPatterns(kind)
        m == Len(patterns)
    IN  (IF kind = "StaticSite" THEN replaceValues ELSE <<>>)
        \o [i \in 1..(Len(keys) * m) |->
               LET key == keys[((i - 1) \div m) + 1]
               IN  [files |-> patterns[((i - 1) % m) + 1],
                    search |-> Placeholder(key),
                    replace |-> siteEnvironment[key]]]

\* the deferred task of a site runs the build command and creates the S3
\* deployment with the same props.environment
UseEnvironment(kind, processEnv, siteEnvironment, replaceValues) ==
    /\ call = NoOp
    /\ call' = [op |-> "environment", kind |-> kind, processEnv |-> processEnv,
                environment |-> siteEnvironment, replaceValues |-> replaceValues]
    /\ ret' = [env |-> BuildCommandEnv(kind, processEnv, siteEnvironment),
               ReplaceValues |->
                   getS3ContentReplaceValues(kind, siteEnvironment, replaceValues)]

InitEnv == InitSite /\ mode = "deploy"
NextEnv ==
    \/ call = NoOp /\ \E processEnv \in ProcessEnvironments,
                         siteEnvironment \in SiteEnvironments :
            UseEnvironment("SsrSite", processEnv, siteEnvironment, <<>>) /\ FnFrame
    \/ call = NoOp /\ \E processEnv \in ProcessEnvironments,
                         siteEnvironment \in SiteEnvironments,
                         replaceValues \in UserReplaceValues :
            UseEnvironment("StaticSite", processEnv, siteEnvironment, replaceValues)
                /\ FnFrame
SpecEnv == InitEnv /\ [][NextEnv]_vars

UsingEnvironment == call.op = "environment"

\* C22: the environment passed to the build command contains every inherited
\* process environment variable and one entry per declared site variable,
\* whose value is the literal value when it is resolved and the string
\* "{{ KEY }}", KEY being its own name, when it is an unresolved token; on a
\* name clash the site entry overrides the inherited one.
C22_BuildCommandEnvironment ==
    UsingEnvironment =>
        /\ (DOMAIN call.processEnv) \cup (DOMAIN call.environment) \subseteq DOMAIN ret.env
        /\ \A k \in DOMAIN call.environment :
              ret.env[k] = IF call.environment[k].unresolved
                           THEN <<"{{ ", k, " }}">>
                           ELSE <<call.environment[k].text>>
        /\ \A k \in (DOMAIN call.processEnv) \ (DOMAIN call.environment) :
              ret.env[k] = call.processEnv[k]

\* C22 witness: PATH is inherited and declared by the site with an unresolved
\* value: the build command got the placeholder, and the inherited SST
\* variable
C22_Witness ==
    /\ UsingEnvironment
    /\ "PATH" \in DOMAIN call.processEnv /\ "SST" \in DOMAIN call.processEnv
    /\ "PATH" \in DOMAIN call.environment
    /\ call.environment["PATH"].unresolved
    /\ ret.env["PATH"] = <<"{{ ", "PATH", " }}">>
    /\ ret.env["SST"] = call.processEnv["SST"]

\* the entry of the replace-values list for a variable and a file pattern
ReplaceEntry(key, files) ==
    [files |-> files, search |-> <<"{{ ", key, " }}">>, replace |-> call.environment[key]]

\* the replace-values list has exactly one entry for the variable and each of
\* the file patterns, and no other entry searching for its placeholder
ReplacedIn(key, patterns) ==
    /\ \A f \in patterns : Count(ret.ReplaceValues, ReplaceEntry(key, f)) = 1
    /\ \A i \in 1..Len(ret.ReplaceValues) :
          ret.ReplaceValues[i].search = <<"{{ ", key, " }}">>
              => ret.ReplaceValues[i] \in {ReplaceEntry(key, f) : f \in patterns}

NotReplaced(key) ==
    \A i \in 1..Len(ret.ReplaceValues) :
        ret.ReplaceValues[i].search # <<"{{ ", key, " }}">>

\* the build command got the placeholder for the variable exactly when the
\* deployment replaces it in the given file patterns
PlaceholderIffReplaced(key, patterns) ==
    IF ret.env[key] = <<"{{ ", key, " }}">>
    THEN call.environment[key].unresolved /\ ReplacedIn(key, patterns)
    ELSE ~call.environment[key].unresolved /\ NotReplaced(key)

\* C28 as claimed: for every site and every declared environment variable
\* KEY, the build command receives "{{ KEY }}" if and only if the
\* replace-values list of the deployment contains entries that search for
\* "{{ KEY }}" and replace it with KEY's value, one for each of the HTML, JS
\* and JSON file patterns; a resolved variable gets no replace entry.
C28_PlaceholderIffReplacedInHtmlJsJson ==
    UsingEnvironment =>
        \A key \in DOMAIN call.environment :
            PlaceholderIffReplaced(key, {"**/*.html", "**/*.js", "**/*.json"})

\* what holds for both kinds: an SsrSite replaces the placeholder in the
\* HTML, JS and JSON files, a StaticSite in the HTML and JS files only
PlaceholderIffReplacedPerKind ==
    UsingEnvironment =>
        \A key \in DOMAIN call.environment :
            PlaceholderIffReplaced(key, Range(ContentPatterns(call.kind)))

-----------------------------------------------------------------------------
(* The binding of a site (checked under SpecBinding).                       *)

\* site.getFunctionBinding() on a site that has just been constructed
GetFunctionBinding(kind, isActive, devDeploy, devUrl, customDomain) ==
    /\ call = NoOp
    /\ call' = [op |-> "getFunctionBinding", kind |-> kind, isActive |-> isActive,
                devDeploy |-> devDeploy, devUrl |-> devUrl,
                customDomain |-> customDomain]
    /\ ret' = getFunctionBinding(
                  NewSiteRecord(kind, isActive, devDeploy, devUrl, FALSE), customDomain)

NextBinding ==
    call = NoOp /\ \E kind \in Kinds, isActive \in BOOLEAN, devDeploy \in DevDeploys,
                      devUrl \in DevUrls, customDomain \in CustomDomains :
        GetFunctionBinding(kind, isActive, devDeploy, devUrl, customDomain) /\ FnFrame
SpecBinding == InitSite /\ [][NextBinding]_vars

Binding == call.op = "getFunctionBinding"

\* the site of the call is a placeholder: its stack is not active, or the
\* application is in dev mode and dev.deploy is not set
BoundToPlaceholder == ~call.isActive \/ (mode = "dev" /\ call.devDeploy # "true")

\* C23: getFunctionBinding of a site never fails and returns exactly one
\* variable, url: for a placeholder site it has type "plain" and the value
\* dev.url, or the constant "localhost" when dev.url is unset; for a deployed
\* site it has type "site_url" and its value is the custom-domain URL if one
\* exists and the distribution URL otherwise.
C23_BindingHasOneUrlVariable ==
    Binding =>
        /\ DOMAIN ret.variables = {"url"}
        /\ ret.variables.url =
              IF BoundToPlaceholder
              THEN [type |-> "plain",
                    value |-> IF call.devUrl = "undefined" THEN "localhost"
                              ELSE call.devUrl]
              ELSE [type |-> "site_url",
                    value |-> IF call.customDomain = "undefined" THEN "distribution.url"
                              ELSE "https://" \o call.customDomain]

\* C23 witness: a deployed site with a custom domain, bound in dev mode with
\* dev.deploy set
C23_Witness ==
    /\ Binding
    /\ mode = "dev" /\ call.devDeploy = "true" /\ call.isActive
    /\ call.customDomain = "example.com"
    /\ ret.variables.url = [type |-> "site_url", value |-> "https://example.com"]

-----------------------------------------------------------------------------
(* Return values of definition functions (checked under SpecRegistry).      *)

\* a synchronous definition function has just returned
SyncReturned == regLast.op = "return" /\ ~regLast.async

\* C25: for a synchronous definition function, stack(app, fn) succeeds and
\* stores exactly the returned value, whatever kind of value it is
\* (undefined and other falsy values, truthy primitives such as a non-empty
\* string, objects), so that a later use(fn) returns that value.
C25_SyncReturnValueStored ==
    SyncReturned =>
        /\ regLast.result = "ok"
        /\ MapHas(getExports(regLast.app), regLast.fn)
        /\ getExports(regLast.app)[regLast.fn] = regLast.value
        /\ currentApp = regLast.app =>
              UseOutcome(regLast.fn) = [result |-> "ok", value |-> regLast.value]

-----------------------------------------------------------------------------
(* buildApp of the two site kinds (checked under SpecBuild).                *)

\* the exit status of the build command
ExitCodes == {0, 1, 2}

\* the package.json of the site: absent, without scripts, without a build
\* script, or with one
PackageJsons == {"missing", "noScripts", "noBuildScript", "ok"}

Built(threw, commandRan, outputChecked) ==
    [threw |-> threw, commandRan |-> commandRan, outputChecked |-> outputChecked]

\* runBuild(), SsrSite.js lines 256-286: customCommand says that
\* props.buildCommand is set to something else than "npm run build"
runBuild(customCommand, packageJson, exitCode) ==
    IF ~customCommand /\ packageJson = "missing"
    THEN Built("NoPackageJson", FALSE, FALSE)
    ELSE IF ~customCommand /\ packageJson # "ok"
    THEN Built("NoBuildScript", FALSE, FALSE)
    \* execSync throws when the command exits with a status other than 0
    ELSE IF exitCode # 0 THEN Built("BuildProblem", TRUE, FALSE)
    ELSE Built("none", TRUE, FALSE)

\* validateBuildOutput(), SsrSite.js lines 250-255
validateBuildOutput(outputExists) ==
    IF outputExists THEN "none" ELSE "NoServerBuildOutput"

\* (variant: the build command is run in test mode as well)
buildAppAlsoInTest(test, customCommand, packageJson, exitCode, outputExists) ==
    LET b == runBuild(customCommand, packageJson, exitCode)
    IN  IF b.threw # "none" THEN b
        ELSE Built(validateBuildOutput(outputExists), b.commandRan, TRUE)

\* SsrSite.buildApp(), lines 243-249: test is app.isRunningSSTTest()
buildApp(test, customCommand, packageJson, exitCode, outputExists) ==
    LET b == IF test THEN Built("none", FALSE, FALSE)
             ELSE runBuild(customCommand, packageJson, exitCode)
    IN  IF b.threw # "none" THEN b
        ELSE Built(validateBuildOutput(outputExists), b.commandRan, TRUE)

\* StaticSite.buildApp(), part_000 lines 182-205: the command is run only
\* when props.buildCommand is set, and the build output is not looked at
StaticBuildApp(pathExists, hasCmd, exitCode) ==
    IF ~pathExists THEN Built("NoPathFound", FALSE, FALSE)
    ELSE IF hasCmd /\ exitCode # 0 THEN Built("BuildProblem", TRUE, FALSE)
    ELSE Built("none", hasCmd, FALSE)

SsrBuild(test, customCommand, packageJson, exitCode, outputExists) ==
    /\ call = NoOp
    /\ call' = [op |-> "SsrSite.buildApp", test |-> test,
                customCommand |-> customCommand, packageJson |-> packageJson,
                exitCode |-> exitCode, outputExists |-> outputExists]
    /\ ret' = buildApp(test, customCommand, packageJson, exitCode, outputExists)

StaticBuild(pathExists, hasCmd, exitCode) ==
    /\ call = NoOp
    /\ call' = [op |-> "StaticSite.buildApp", pathExists |-> pathExists,
                hasCmd |-> hasCmd, exitCode |-> exitCode]
    /\ ret' = StaticBuildApp(pathExists, hasCmd, exitCode)

InitBuild == InitSite /\ mode = "deploy"
NextBuild ==
    \/ call = NoOp /\ \E test \in BOOLEAN, customCommand \in BOOLEAN,
                         packageJson \in PackageJsons, exitCode \in ExitCodes,
                         outputExists \in BOOLEAN :
            SsrBuild(test, customCommand, packageJson, exitCode, outputExists) /\ FnFrame
    \/ call = NoOp /\ \E pathExists \in BOOLEAN, hasCmd \in BOOLEAN,
                         exitCode \in ExitCodes :
            StaticBuild(pathExists, hasCmd, exitCode) /\ FnFrame
SpecBuild == InitBuild /\ [][NextBuild]_vars

\* the build command of the call is started: not in test mode, and the
\* default command has its build script
CommandStarts ==
    /\ call.op = "SsrSite.buildApp"
    /\ ~call.test
    /\ call.customCommand \/ call.packageJson = "ok"

\* C27: in SsrSite.buildApp, a build command that exits nonzero produces the
\* build-problem error and the build-output check is not run; a build
\* command that exits zero without producing the server build output
\* produces the distinct no-server-build-output error; in test mode the
\* build command is never run but the build-output check still is.
C27_BuildFailuresAreDistinct ==
    call.op = "SsrSite.buildApp" =>
        /\ (CommandStarts /\ call.exitCode # 0) =>
              ret = Built("BuildProblem", TRUE, FALSE)
        /\ (CommandStarts /\ call.exitCode = 0 /\ ~call.outputExists) =>
              ret = Built("NoServerBuildOutput", TRUE, TRUE)
        /\ call.test =>
              /\ ~ret.commandRan /\ ret.outputChecked
              /\ ret.threw = IF call.outputExists THEN "none" ELSE "NoServerBuildOutput"

\* C27 witness: in test mode, with a command that would fail and no build
\* output, the call failed at the build-output check
C27_Witness ==
    /\ call.op = "SsrSite.buildApp"
    /\ call.test /\ call.exitCode = 1 /\ ~call.outputExists
    /\ ret = Built("NoServerBuildOutput", FALSE, TRUE)

-----------------------------------------------------------------------------
(* The default file options of the S3 deployment (checked under SpecCache). *)
(* A cache-control value is the sequence of its directives; an include      *)
(* pattern is "name" (one top-level file), "name/*" (what is under a        *)
(* top-level directory) or "*.ext".                                         *)

\* buildConfig.clientBuildVersionedSubDir: the directory of the fingerprinted
\* files
VersionedSubDir == "_astro"

\* the top-level entries a build output can have, in the order of readdirSync
TopLevel == <<"_astro", "data", "favicon.ico", "images", "index.html", "sw.js">>

\* the files a build output can hold: the top-level entry each belongs to,
\* whether that entry is a directory, and the file's extension
File(top, isDirectory, ext) == [top |-> top, isDirectory |-> isDirectory, ext |-> ext]
Files ==
    {File("_astro", TRUE, "js"), File("_astro", TRUE, "css"),
     File("data", TRUE, "json"), File("favicon.ico", FALSE, "ico"),
     File("images", TRUE, "png"), File("index.html", FALSE, "html"),
     File("sw.js", FALSE, "js")}
BuildOutputs == SUBSET Files

ExactPattern(name) == [pattern |-> "name", of |-> name]
UnderPattern(dir) == [pattern |-> "name/*", of |-> dir]
ExtensionPattern(ext) == [pattern |-> "*.ext", of |-> ext]

FileOption(include, cacheControl) ==
    [exclude |-> "*", include |-> include, cacheControl |-> cacheControl]

Immutable == <<"public", "max-age=31536000", "immutable">>
Revalidated == <<"public", "max-age=0", "s-maxage=31536000", "must-revalidate">>

\* the items of fs.readdirSync(clientPath)
Items(files) == SelectSeq(TopLevel, LAMBDA item : \E f \in files : f.top = item)

\* fs.statSync(itemPath).isDirectory()
IsDirectory(files, item) == \E f \in files : f.top = item /\ f.isDirectory

\* the body of the loop of createS3AssetFileOptions, SsrSite.js lines 345-365
ItemFileOption(files, item) ==
    IF item = VersionedSubDir
    THEN FileOption({UnderPattern(item)}, Immutable)
    ELSE FileOption({IF IsDirectory(files, item) THEN UnderPattern(item)
                     ELSE ExactPattern(item)}, Revalidated)

\* createS3AssetFileOptions() without props.fileOptions, SsrSite.js lines
\* 339-367
createS3AssetFileOptions(files) ==
    [i \in 1..Len(Items(files)) |-> ItemFileOption(files, Items(files)[i])]

\* the default fileOptions of StaticSite.createS3Deployment, part_000 lines
\* 297-308
StaticFileOptions ==
    << FileOption({ExtensionPattern("html")},
                  <<"max-age=0", "no-cache", "no-store", "must-revalidate">>),
       FileOption({ExtensionPattern("js"), ExtensionPattern("css")},
                  <<"max-age=31536000", "public", "immutable">>) >>

\* the include pattern selects the file
Matches(p, f) ==
    CASE p.pattern = "name" -> ~f.isDirectory /\ f.top = p.of
      [] p.pattern = "name/*" -> f.isDirectory /\ f.top = p.of
      [] p.pattern = "*.ext" -> f.ext = p.of

DefaultFileOptions(kind, files) ==
    /\ call = NoOp
    /\ call' = [op |-> "fileOptions", kind |-> kind, files |-> files]
    /\ ret' = [fileOptions |-> IF kind = "SsrSite" THEN createS3AssetFileOptions(files)
                               ELSE StaticFileOptions]

InitCache == InitSite /\ mode = "deploy"
NextCache ==
    \/ call = NoOp /\ \E files \in BuildOutputs :
                         DefaultFileOptions("SsrSite", files) /\ FnFrame
    \/ call = NoOp /\ \E files \in BuildOutputs :
                         DefaultFileOptions("StaticSite", files) /\ FnFrame
SpecCache == InitCache /\ [][NextCache]_vars

\* the rules of the result that select the file
RulesFor(f) ==
    {i \in 1..Len(ret.fileOptions) :
        \E p \in ret.fileOptions[i].include : Matches(p, f)}

LongLived(cacheControl) ==
    {"max-age=31536000", "immutable"} \subseteq Range(cacheControl)
MustRevalidate(cacheControl) ==
    /\ {"max-age=0", "must-revalidate"} \subseteq Range(cacheControl)
    /\ "max-age=31536000" \notin Range(cacheControl)

\* each file of the build output is selected by exactly one rule: the
\* long-lived one in the versioned directory, a revalidating one elsewhere
CachedByItsGroup ==
    \A f \in call.files :
        /\ Cardinality(RulesFor(f)) = 1
        /\ \A i \in RulesFor(f) :
              IF f.top = VersionedSubDir
              THEN LongLived(ret.fileOptions[i].cacheControl)
              ELSE MustRevalidate(ret.fileOptions[i].cacheControl)

\* C29: with default file options, every top-level entry of a site's build
\* output is covered by exactly one caching rule: only the versioned
\* sub-directory gets the long-lived immutable cache-control, every
\* unversioned entry gets one with max-age=0 and must-revalidate, never a
\* long browser-level max-age; for the defaults of SsrSite and StaticSite.
C29_DefaultCachingByGroup ==
    call.op = "fileOptions" => CachedByItsGroup

\* what holds: the defaults of an SsrSite cache every entry by its group
SsrDefaultCachingByGroup ==
    (call.op = "fileOptions" /\ call.kind = "SsrSite") => CachedByItsGroup

-----------------------------------------------------------------------------
(* Unsubscribing during a delivery (checked under SpecBus).                 *)

\* the subscriptions that were registered when the finished publish began
\* and have not been unsubscribed
Remaining ==
    {s \in Range(busLast.atStart) : s \in Range(subscribers(busLast.type))}

\* C30: if a callback unsubscribes a subscription of type T (its own or
\* another one) while publish(T) is delivering, every subscription of type T
\* that was registered when publish began and has not been unsubscribed is
\* still invoked exactly once by that publish.
C30_UnsubscribeDuringPublishSkipsNone ==
    busLast.op = "publish" =>
        \A s \in Remaining : Occurrences(DeliveredSubs, s) = 1

-----------------------------------------------------------------------------
(* Subscribing during a delivery (checked under SpecBus).                   *)

\* the subscriptions made while the finished publish was delivering that are
\* registered when it returns
AddedDuringPublish ==
    {s \in Range(subscribers(busLast.type)) : s \notin Range(busLast.atStart)}

\* the position of the invocation of a subscription's callback, 0 if none
DeliveredAt(s) ==
    IF \E i \in 1..Len(DeliveredSubs) : DeliveredSubs[i] = s
    THEN CHOOSE i \in 1..Len(DeliveredSubs) : DeliveredSubs[i] = s
    ELSE 0

\* C31: a subscription added for type T by a callback while publish(T) is
\* delivering is invoked by that same publish, after all the subscriptions
\* that existed before it (the delivery iterates the live list).
C31_SubscribedDuringPublishIsInvoked ==
    busLast.op = "publish" =>
        \A s \in AddedDuringPublish :
            /\ Occurrences(DeliveredSubs, s) = 1
            /\ \A old \in Range(busLast.atStart) : DeliveredAt(old) < DeliveredAt(s)


(***************************************************************************)
(* The delivery loop of publish, seen from its iterator.                   *)
(*                                                                         *)
(* `for (const sub of subscribers(type)) sub.cb(payload)` walks the live   *)
(* array: the loop ends when the iterator's index reaches the array's      *)
(* current length.  Whether it ends depends only on the part of the array  *)
(* the iterator has not visited yet, so this specification keeps that part *)
(* (`rest`, the callbacks in list order) and the callback now running.     *)
(* The bus model above numbers every subscription and therefore has to     *)
(* cap their total; here only the unvisited part is capped, so a callback  *)
(* may subscribe on every invocation, for ever.                            *)
(***************************************************************************)
MaxRest == 3

CallbackLists == UNION {[1..n -> Callbacks] : n \in 0..MaxRest}

Iterating == call.op = "publish" /\ ret = NoOp

\* publish(type, properties): the loop starts on the registered list.
IterateBegin(type, properties, list) ==
    /\ call = NoOp
    /\ call' = [op |-> "publish", type |-> type, properties |-> properties,
                rest |-> list, running |-> "none"]
    /\ ret' = NoOp

\* The running callback (if any) has returned; the iterator yields the next
\* element of the live array and its callback is invoked.
IterateNext ==
    /\ Iterating
    /\ Len(call.rest) > 0
    /\ call' = [call EXCEPT !.rest = Tail(call.rest), !.running = Head(call.rest)]
    /\ ret' = ret

\* The running callback calls subscribe(type, cb): push onto the live array.
IterateSubscribe(cb) ==
    /\ Iterating
    /\ call.running # "none"
    /\ Len(call.rest) < MaxRest
    /\ call' = [call EXCEPT !.rest = Append(call.rest, cb)]
    /\ ret' = ret

\* The running callback calls unsubscribe: splice on the live array.  Removing
\* a not yet visited element takes it out of the iteration; removing a visited
\* one shifts the array and takes the next element (i = 1) out of it.
IterateUnsubscribe(i) ==
    /\ Iterating
    /\ call.running # "none"
    /\ i \in 1..Len(call.rest)
    /\ call' = [call EXCEPT !.rest = Without(call.rest, i)]
    /\ ret' = ret

\* The iterator is exhausted: publish returns.
IterateDone ==
    /\ Iterating
    /\ call.rest = <<>>
    /\ ret' = [op |-> "returned"]
    /\ call' = call

NextDelivery ==
    \/ call = NoOp /\ \E type \in Types, properties \in Properties, list \in CallbackLists :
            IterateBegin(type, properties, list) /\ FnFrame
    \/ IterateNext /\ FnFrame
    \/ \E cb \in Callbacks : IterateSubscribe(cb) /\ FnFrame
    \/ \E i \in 1..MaxRest : IterateUnsubscribe(i) /\ FnFrame
    \/ IterateDone /\ FnFrame

\* The loop is synchronous: once the running callback returns, the iterator
\* advances or the loop ends.  What a callback does while it runs is its own
\* choice and carries no fairness.
SpecDelivery ==
    /\ InitBus
    /\ [][NextDelivery]_vars
    /\ WF_vars(IterateNext /\ FnFrame)
    /\ WF_vars(IterateDone /\ FnFrame)

\* C32: every publish whose callbacks all return, returns itself after
\* finitely many callback invocations, whatever the callbacks subscribe or
\* unsubscribe during the delivery.
C32_PublishReturns == (call.op = "publish") ~> (ret.op = "returned")


(***************************************************************************)
(* Atomicity and order of the attach calls, effect of resolved statements. *)
(***************************************************************************)
AttachCall == call.op \in {"attachPermissionsToRole", "attachPermissionsToPolicy"}

\* C33: an attach call that fails on a configuration error (unsupported
\* value, unsupported element, invalid grant method, grant tuple given to a
\* policy) has added no statement and invoked no grant method.
C33_AttachIsAllOrNothing ==
    (AttachCall /\ ret.threw # "none") => ret.calls = <<>>

\* the grant tuples of a permissions value, in their declaration order
DeclaredGrants(permissions) ==
    IF IsList(permissions) THEN SelectSeq(permissions.items, GrantShaped) ELSE <<>>

C35_ResolvedStatementsAllow ==
    (call.op = "permissionsToStatementsAndGrants" /\ ret.threw = "none") =>
        \A i \in 1..Len(ret.statements) : ret.statements[i].effect = "Allow"


(***************************************************************************)
(* The current application and stack (checked under SpecRegistry).         *)
(***************************************************************************)
\* The registry with one return value for the stack bodies: what a body
\* returns has no part in the current application and stack.
NextCurrent ==
    \/ \E app \in Apps, fn \in Fns : StackCall(app, fn) /\ RegistryFrame
    \/ BodyAwait /\ RegistryFrame
    \/ \E target \in Fns : BodyUse(target) /\ RegistryFrame
    \/ \E target \in Fns : BodyDependsOn(target) /\ RegistryFrame
    \/ BodyReturn("obj1") /\ RegistryFrame
    \/ BodyThrow /\ RegistryFrame
    \/ \E c \in pending : BodyResume(c) /\ RegistryFrame
    \/ BodyResolve("obj1") /\ RegistryFrame
SpecCurrent == InitRegistry /\ [][NextCurrent]_vars

\* the handle registered for the current stack under the current application
CurrentHandle == stackCache[currentApp][currentStack]

\* C36: the current application and stack are set by every stack() call, a
\* rejected duplicate included, to that call's arguments, and nothing else
\* changes them: no body that returns, throws, suspends or resumes restores
\* them.  A successful dependsOn(target) therefore adds its dependency to the
\* handle of the most recently started stack, whichever body calls it.
C36_CurrentFollowsLastStackCall ==
    [][/\ IF ncalls' # ncalls
          THEN /\ regLast'.op = "stack"
               /\ currentApp' = regLast'.app
               /\ currentStack' = regLast'.fn
          ELSE UNCHANGED <<currentApp, currentStack>>
       /\ (regLast'.op = "dependsOn" /\ regLast'.result = "ok") =>
              deps' = Append(deps, <<CurrentHandle,
                                     stackCache[currentApp][regLast'.target]>>)]_vars

\* C36 witness: the asynchronous body of one stack resumed after a later
\* stack() call and called dependsOn: the dependency starts at the later
\* stack's handle, not at the handle of the stack whose body runs
C36_Witness ==
    /\ regLast.op = "dependsOn"
    /\ regLast.result = "ok"
    /\ \E c \in running :
          /\ c.async
          /\ c.fn # currentStack
          /\ deps[Len(deps)][1] = CurrentHandle
          /\ deps[Len(deps)][1] # c.h

\* a duplicate stack() call was rejected and still became the current stack
C36_DuplicateBecomesCurrent ==
    /\ regLast.op = "stack"
    /\ regLast.result = "StackDuplicates"
    /\ currentStack = regLast.fn
    /\ \E h \in stacks : h.n = ncalls - 1 /\ h.fn # currentStack


(***************************************************************************)
(* createS3Assets as a whole: clearing the archive directory, running the  *)
(* archiver, discovering the parts (checked under SpecArchive).            *)
(***************************************************************************)
MaxWritten == 3

\* what an archive output directory can hold: the indices n of its part<n>.zip
PartDirs == SUBSET (0..MaxWritten)

\* fs.rmSync(zipOutDir, { recursive: true, force: true })
RmSync(dir) == {}

\* (variant: the directory of the earlier build is kept)
RmSyncKeeping(dir) == dir

\* the archiver process: it adds the part files it writes to the directory
\* and exits with a status
RunArchiver(dir, written) == dir \cup written

RECURSIVE DiscoverParts(_, _, _)
\* for (let partId = 0;; partId++) { if (!fs.existsSync(...)) break; assets.push(...) }
DiscoverParts(dir, partId, assets) ==
    IF ~PartExists(dir, partId) THEN assets
    ELSE DiscoverParts(dir, partId + 1, Append(assets, PartAsset(partId)))

Packaged(threw, archiverRan, dir, assets) ==
    [threw |-> threw, archiverRan |-> archiverRan, dir |-> dir, assets |-> assets]

\* (variant: part discovery runs without clearing the directory first)
createS3AssetsKeepingOldParts(kind, outputExists, stale, written, exitCode) ==
    IF kind = "StaticSite" /\ ~outputExists
    THEN Packaged("NoBuildOutput", FALSE, stale, <<>>)
    ELSE LET dir == RunArchiver(RmSyncKeeping(stale), written)
         IN  IF exitCode # 0 THEN Packaged("PackageProblem", TRUE, dir, <<>>)
             ELSE Packaged("none", TRUE, dir, DiscoverParts(dir, 0, <<>>))

\* createS3Assets(): SsrSite.js lines 290-338, StaticSite part_000 lines
\* 206-256 (only the StaticSite checks its build output first)
createS3Assets(kind, outputExists, stale, written, exitCode) ==
    IF kind = "StaticSite" /\ ~outputExists
    THEN Packaged("NoBuildOutput", FALSE, stale, <<>>)
    ELSE LET dir == RunArchiver(RmSync(stale), written)
         IN  IF exitCode # 0 THEN Packaged("PackageProblem", TRUE, dir, <<>>)
             ELSE Packaged("none", TRUE, dir, DiscoverParts(dir, 0, <<>>))

CreateS3Assets(kind, outputExists, stale, written, exitCode) ==
    /\ call = NoOp
    /\ call' = [op |-> "createS3AssetsOf", kind |-> kind, outputExists |-> outputExists,
                stale |-> stale, written |-> written, exitCode |-> exitCode]
    /\ ret' = createS3Assets(kind, outputExists, stale, written, exitCode)

NextArchive ==
    call = NoOp /\ \E kind \in Kinds, outputExists \in BOOLEAN, stale \in PartDirs,
                      written \in PartDirs, exitCode \in ExitCodes :
        CreateS3Assets(kind, outputExists, stale, written, exitCode) /\ FnFrame
SpecArchive == InitProbe /\ [][NextArchive]_vars

\* the indices of the leading consecutive run 0, 1, 2, ... of a set of parts
ConsecutiveFromZero(parts) == {n \in parts : \A m \in 0..n : m \in parts}

AssetIndices == {ret.assets[i].id[2] : i \in 1..Len(ret.assets)}

\* C37: the assets of a build are exactly the consecutively numbered parts
\* its own archiver run wrote, in order; the directory is cleared before the
\* archiver runs, a failed archiver run yields no asset, and a part left by
\* an earlier build never becomes an asset.
C37_AssetsAreThisBuildsParts ==
    call.op = "createS3AssetsOf" =>
        /\ AssetIndices = IF ret.threw = "none" THEN ConsecutiveFromZero(call.written)
                          ELSE {}
        /\ ret.assets = [i \in 1..Len(ret.assets) |-> PartAsset(i - 1)]
        /\ ret.archiverRan => ret.dir = call.written
        /\ (ret.archiverRan /\ call.exitCode # 0) => ret.threw = "PackageProblem"
        /\ \A n \in call.stale \ call.written : n \notin AssetIndices

\* C37 witness: the earlier build left part0..part2, this build's archiver
\* wrote part0 only: one asset, the two stale parts are gone
C37_Witness ==
    /\ call.op = "createS3AssetsOf"
    /\ call.stale = {0, 1, 2}
    /\ call.written = {0}
    /\ ret.threw = "none"
    /\ Len(ret.assets) = 1
    /\ ret.dir = {0}


(***************************************************************************)
(* The auth handler with its cookies, its request parameters and the       *)
(* success branch, handler.js lines 92-279 (checked under SpecSession).    *)
(* The `state` parameter travels like the other three and is left out.     *)
(***************************************************************************)
Absent == "undefined"

AppUri == "https://app.example/callback"
EvilUri == "https://evil.example/callback"

\* the providers a request of this model selects
RequestProviders == {NoProvider, "google", "bogus"}

\* what the authorize step can have stored in the cookies, or nothing
CookieParams ==
    [response_type : {Absent, "token", "code"}, client_id : {Absent, "web"},
     redirect_uri : {Absent, AppUri}]

\* what a request can carry in its query string
QueryParams ==
    [response_type : {Absent, "token", "code", "id_token"},
     client_id : {Absent, "web", "evil"}, redirect_uri : {Absent, AppUri, EvilUri}]

\* { ...useCookies(), ...useQueryParams() }: a key of the query string
\* overrides the cookie of the same name, lines 106-109 and 227-230
SpreadParams(cookies, query) ==
    [k \in DOMAIN cookies |-> IF query[k] # Absent THEN query[k] ELSE cookies[k]]

\* input.clients: absent, or the registry of the redirect URI of each client
ClientConfigs == {"none", "registry"}
ClientRedirect(client_id) == IF client_id = "web" THEN AppUri ELSE Absent

\* result.type of the adapter, onSuccess.type of the hook
SessionAdapterResults == {"step", "success", "error", "other"}
OnSuccessTypes == {"session", "http", "other"}

NoLocation == [uri |-> "none", carries |-> "none", client_id |-> "none"]

\* what an invocation ends with: statusCode 0 stands for no structured
\* response (the handler returned undefined or threw); cookies are the
\* cookies written with useResponse() during the invocation
Response(statusCode, body, location, cookies) ==
    [statusCode |-> statusCode, body |-> body, location |-> location,
     cookies |-> cookies]

Cookie(key, value) == [key |-> key, value |-> value]

\* lines 100-149: the checks of the authorize step, in order
AuthorizeError(provider, p, clients) ==
    IF provider = NoProvider THEN "Missing provider"
    ELSE IF p.redirect_uri = Absent THEN "Missing redirect_uri"
    ELSE IF p.response_type = Absent THEN "Missing response_type"
    ELSE IF p.client_id = Absent THEN "Missing client_id"
    ELSE IF clients = "registry" /\ ClientRedirect(p.client_id) # p.redirect_uri
    THEN "Invalid redirect_uri"
    ELSE "none"

\* lines 150-161
AuthorizeCookies(provider, p) ==
    {Cookie("provider", provider), Cookie("response_type", p.response_type),
     Cookie("client_id", p.client_id), Cookie("redirect_uri", p.redirect_uri)}

\* lines 212-226: the session cookie, and the authorize cookies cleared
SessionCookies ==
    {Cookie("sst_auth_token", "token"), Cookie("provider", ""),
     Cookie("response_type", ""), Cookie("client_id", ""), Cookie("redirect_uri", "")}

\* lines 199-268: new URL(undefined) throws a TypeError
SessionResponse(p, written) ==
    LET cookies == written \cup SessionCookies
    IN  IF p.response_type \in {"token", "code"}
        THEN IF p.redirect_uri = Absent
             THEN Response(0, "TypeError", NoLocation, cookies)
             ELSE Response(302, "",
                           [uri |-> p.redirect_uri,
                            carries |-> IF p.response_type = "token"
                                        THEN "access_token" ELSE "code",
                            client_id |-> IF p.response_type = "code"
                                          THEN p.client_id ELSE "none"],
                           cookies)
        ELSE Response(400, "Unsupported response_type", NoLocation, cookies)

\* lines 175-278: the adapter and what follows its result
AdapterResponse(adapterResult, onSuccess, p, written) ==
    CASE adapterResult = "step" -> Response(302, "result.properties", NoLocation, written)
      [] adapterResult = "success" ->
            (CASE onSuccess = "session" -> SessionResponse(p, written)
               [] onSuccess = "http" ->
                     Response(200, "onSuccess.properties", NoLocation, written)
               [] OTHER -> Response(0, "undefined", NoLocation, written))
      [] adapterResult = "error" ->
            Response(400, "an error has occured", NoLocation, written)
      [] OTHER -> Response(0, "undefined", NoLocation, written)

\* lines 163-173
UnknownProviderResponse(hook, written) ==
    CASE HookResponse(hook) = "hookResponse" ->
            Response(200, "hookResponse", NoLocation, written)
      [] HookResponse(hook) = "undefined" -> Response(0, "undefined", NoLocation, written)
      [] OTHER -> Response(400, "Was not able to find provider", NoLocation, written)

\* lines 92-279 for the steps "authorize" and "callback"
AuthRequest(step, provider, cookies, query, clients, hook, adapterResult, onSuccess) ==
    LET p == SpreadParams(cookies, query)
        error == IF step = "authorize" THEN AuthorizeError(provider, p, clients)
                 ELSE "none"
        written == IF step = "authorize" THEN AuthorizeCookies(provider, p) ELSE {}
    IN  IF error # "none" THEN Response(400, error, NoLocation, {})
        ELSE IF provider = NoProvider \/ provider \notin ConfiguredProviders
        THEN UnknownProviderResponse(hook, written)
        ELSE AdapterResponse(adapterResult, onSuccess, p, written)

HandleRequest(step, provider, cookies, query, clients, hook, adapterResult, onSuccess) ==
    /\ call = NoOp
    /\ call' = [op |-> "AuthRequest", step |-> step, provider |-> provider,
                cookies |-> cookies, query |-> query, clients |-> clients,
                hook |-> hook, adapterResult |-> adapterResult,
                onSuccess |-> onSuccess]
    /\ ret' = AuthRequest(step, provider, cookies, query, clients, hook, adapterResult,
                          onSuccess)

NextSession ==
    call = NoOp /\ \E step \in AuthSteps, provider \in RequestProviders,
                      cookies \in CookieParams, query \in QueryParams,
                      clients \in ClientConfigs, hook \in {"none", "response", "undefined"},
                      adapterResult \in SessionAdapterResults,
                      onSuccess \in OnSuccessTypes :
        HandleRequest(step, provider, cookies, query, clients, hook, adapterResult,
                      onSuccess) /\ FnFrame
SpecSession == InitAuth /\ [][NextSession]_vars

Handled == call.op = "AuthRequest"

\* C38: every invocation whose hooks and adapter return normally ends with a
\* structured response carrying a statusCode, whatever the step, the type of
\* the adapter's result and the type of the onSuccess directive.
C38_AlwaysStructuredResponse ==
    Handled => ret.statusCode # 0

\* C39: an invocation answered with a 400 response has set no cookie.
C39_NoCookieOn400 ==
    (Handled /\ ret.statusCode = 400) => ret.cookies = {}

\* a session result answered with a redirect
SessionRedirect ==
    /\ Handled
    /\ call.step = "callback"
    /\ call.adapterResult = "success"
    /\ call.onSuccess = "session"
    /\ ret.statusCode = 302

\* C40: a successful session result redirects to the redirect_uri stored in
\* the cookies by the authorize step; the query string of the callback
\* request changes neither the target, nor the client_id, nor the
\* response_type the redirect is built from.
C40_RedirectFromCookiesOnly ==
    SessionRedirect =>
        /\ ret.location.uri = call.cookies.redirect_uri
        /\ ret.location.carries = IF call.cookies.response_type = "token"
                                  THEN "access_token" ELSE "code"
        /\ ret.location.carries = "code" => ret.location.client_id = call.cookies.client_id

====
